---- MODULE Spec2Model ----
(***************************************************************************)
(* Model of gh-ado-codespaces.                                             *)
(*                                                                         *)
(* Spec     - the port monitor (port-monitor.go): the goroutine that runs  *)
(*            the remote monitor command, the stdout reader that decodes   *)
(*            its lines, the forward map updated by handlePortMessage, the *)
(*            forwarding child commands started by startPortForwarding,    *)
(*            and the deferred shutdown of runAndProcessOutput.            *)
(* FeedSpec - the reader's scanner loop over a given output stream.        *)
(* ArgsSpec - the reverse-service registry and the argument builders       *)
(*            (port.go, args.go).                                          *)
(*                                                                         *)
(* AuthSpec - one connection to the credential broker (azure-auth.go).     *)
(*                                                                         *)
(* Each specification moves the variables of its own part and leaves the   *)
(* variables of the other parts at their initial values.                   *)
(***************************************************************************)
EXTENDS Integers, Sequences, FiniteSets, TLC

(* ---------------------------- bounds ----------------------------------- *)

\* forwarding commands created in one monitor run
MaxSpawns == 2

\* lines on the monitor's output stream in FeedSpec
MaxFeed == 3

\* entries of the registry in ArgsSpec
MaxRegistry == 2

\* request frames a client sends on one connection in AuthSpec
MaxFrames == 3

\* HTTP requests a broker service handles in WebSpec
MaxRequests == 2

(* ------------------------- reverse-service registry -------------------- *)

\* WellKnownPorts, in registry order
WellKnownPorts ==
  << [Port |-> 1234,  Description |-> "LM Studio",       Enabled |-> TRUE, AlwaysForward |-> FALSE],
     [Port |-> 9222,  Description |-> "Chrome DevTools", Enabled |-> TRUE, AlwaysForward |-> FALSE],
     [Port |-> 11434, Description |-> "Ollama",          Enabled |-> TRUE, AlwaysForward |-> FALSE] >>

\* IsReverseForwardedPort(port): the port is in the registry with Enabled set
IsReverseForwardedPort(port) ==
  \E i \in 1..Len(WellKnownPorts) :
      WellKnownPorts[i].Port = port /\ WellKnownPorts[i].Enabled

(* ------------------------------ inputs --------------------------------- *)

\* port numbers a port message carries in the model: zero, a registry port
\* and an ordinary port
PortValues == {0, 1234, 8080}

\* the nil *exec.Cmd
NilCmd == 0

\* A line of the monitor command's stdout.
\*   kind:   notjson   - json.Unmarshal into RawMessage fails
\*           badshape  - valid JSON that does not decode into {type string}
\*           notype    - JSON object without a type field
\*           othertype - JSON object with a type other than port and log
\*           log, port - the two message types
\*   field:  int       - the port field is a JSON integer (l.port)
\*           bad       - the port field does not decode into an int
\*           missing   - no port field
\*   long:   the line exceeds the scanner's token limit
OtherLines ==
  [kind : {"notjson", "badshape", "notype", "othertype", "log"},
   action : {"none"}, field : {"missing"}, port : {0}, protocol : {"none"},
   long : {FALSE}]

PortLines ==
  [kind : {"port"}, action : {"bound", "unbound", "other"},
   field : {"int"}, port : PortValues, protocol : {"tcp", "udp"}, long : {FALSE}]
  \cup
  [kind : {"port"}, action : {"bound", "unbound"},
   field : {"bad", "missing"}, port : {0}, protocol : {"tcp"}, long : {FALSE}]

LongLines ==
  [kind : {"notjson", "port"}, action : {"bound"}, field : {"int"},
   port : {8080}, protocol : {"tcp"}, long : {TRUE}]

Lines == OtherLines \cup PortLines \cup LongLines

(* ------------------------------ state ---------------------------------- *)

VARIABLES
  monitorCtxDone,  \* monitorCtx of StartPortMonitor is cancelled
  stopCalls,       \* calls of PortMonitorController.Stop() so far: none, one, many
  monPc,           \* position of the monitor goroutine
  deferIdx,        \* next deferred call of runAndProcessOutput to run
  readerPc,        \* position of the stdout reader goroutine
  monCmd,          \* the remote monitor command: none, running, exited
  fwdCancelled,    \* cancelForwarding() was called
  portForwards,    \* map[int]portForwardInfo
  cmds,            \* the *exec.Cmd values made by startPortForwarding
  lastAct,         \* per port: action of the last port event handled
  lastDup,         \* the port of the last port event handled, when that event
                   \* repeated the action of the event before it for the port
  spawnsSince,     \* per port: startPortForwarding calls since the last unbound
  killsSince,      \* per port: Process.Kill calls by unbound since the last bound
  retired,         \* handles dropped from an entry by an unbound event
  cleanupRuns,     \* runs of cleanupPortForwards
  scanErr          \* scanner.Err() is non-nil

VARIABLES
  stream,          \* the lines the monitor command writes to its stdout
  scanned,         \* lines scanner.Scan() has returned so far
  current,         \* index of the line the loop body is working on, or 0
  stoppedAt,       \* index of the line at which the reader returned, or 0
  handledLog       \* indices of the lines handed to handlePortMessage

VARIABLES
  registry,        \* the value of the package variable WellKnownPorts
  listening,       \* local ports that accept a TCP connection
  lastCall,        \* the function called last
  callForwards,    \* argument of the last BuildReverseForwardArgs call
  callSSH,         \* receiver and arguments of the last BuildSSHArgs call
  probed,          \* value of listening when the registry was last probed
  boundForwards,   \* result of the last GetBoundReverseForwards call
  outArgs          \* result of the last argument builder call

VARIABLES
  brokerCtxDone,   \* the context handed to SetupServer is cancelled
  connPc,          \* position of handleConnection: top, read, closed
  clientOpen,      \* the client has not closed its end of the connection
  inbox,           \* frames the client has written that were not read yet
  outbox,          \* frames written to the connection and flushed
  reqLog,          \* per frame read: the frame, the outcome of GetToken, the
                   \* scopes handed to GetToken, whether the context was
                   \* cancelled when the frame was read, and the length of
                   \* outbox before and after handling it
  tokenCalls       \* scopes of the GetToken calls made

VARIABLES
  web,             \* an HTTP broker service (notification or browser)
  srv,             \* the credential broker's listener and accept loop
  orch,            \* the session orchestrator: main and its deferred calls
  sh,              \* the remote port monitor script
  cfg,             \* the per-login configuration (AppConfig)
  tcp,             \* the raw-TCP browser service and its goroutines
  sel              \* the codespace selection model

feedVars == << stream, scanned, current, stoppedAt, handledLog >>

argsVars == << registry, listening, lastCall, callForwards, callSSH, probed,
               boundForwards, outArgs >>

authVars == << brokerCtxDone, connPc, clientOpen, inbox, outbox, reqLog,
               tokenCalls >>

\* the variables outside the port monitor
extVars == << feedVars, argsVars, authVars, web, srv, orch, sh, cfg, tcp, sel >>

vars == << monitorCtxDone, stopCalls, monPc, deferIdx, readerPc, monCmd,
           fwdCancelled, portForwards, cmds, lastAct, lastDup, spawnsSince,
           killsSince, retired, cleanupRuns, scanErr, extVars >>

monitorVars == << monitorCtxDone, stopCalls, monPc, deferIdx, monCmd,
                  fwdCancelled, cleanupRuns >>

historyVars == << lastAct, lastDup, spawnsSince, killsSince, retired >>

\* the variables of the port monitor
monitorAll == << monitorVars, readerPc, portForwards, cmds, historyVars,
                scanErr >>

Handles == 1..Len(cmds)

\* forwardingCtx is derived from ctx: done when ctx is done or when
\* cancelForwarding was called
FwdCtxDoneOnlyParent == monitorCtxDone

FwdCtxDone == monitorCtxDone \/ fwdCancelled

\* cmd.Process is set once os.StartProcess succeeded
ProcessSet(h) == cmds[h].st \in {"running", "exited", "killed", "cancelled"}

\* portForwards[port]: the zero value when the key is absent
Lookup(port) ==
  IF port \in DOMAIN portForwards
    THEN portForwards[port]
    ELSE [active |-> FALSE, cmd |-> NilCmd]

\* no output stream is given: the lines are chosen step by step
FeedIdle ==
  /\ stream = << >>
  /\ scanned = 0
  /\ current = 0
  /\ stoppedAt = 0
  /\ handledLog = << >>

\* no registry function has been called
ArgsIdle ==
  /\ registry = << >>
  /\ listening = {}
  /\ lastCall = "none"
  /\ callForwards = << >>
  /\ callSSH = << >>
  /\ probed = {}
  /\ boundForwards = << >>
  /\ outArgs = << >>

\* no connection to the credential broker has been accepted
AuthIdle ==
  /\ brokerCtxDone = FALSE
  /\ connPc = "none"
  /\ clientOpen = FALSE
  /\ inbox = << >>
  /\ outbox = << >>
  /\ reqLog = << >>
  /\ tokenCalls = << >>

\* no HTTP broker service has been created
WebIdle == web = << >>

\* the credential broker has not been set up
SrvIdle == srv = << >>

\* main is not running
OrchIdle == orch = << >>

\* the port monitor script is not running
ShIdle == sh = << >>

\* no configuration is loaded, no raw-TCP browser service is created and no
\* selection is shown
RestIdle == cfg = << >> /\ tcp = << >> /\ sel = << >>

\* the port monitor with its goroutine at position pc and nothing done yet
MonitorAt(pc) ==
  /\ monitorCtxDone = FALSE
  /\ stopCalls = "none"
  /\ monPc = pc
  /\ deferIdx = 0
  /\ readerPc = "idle"
  /\ monCmd = "none"
  /\ fwdCancelled = FALSE
  /\ portForwards = << >>
  /\ cmds = << >>
  /\ lastAct = [p \in PortValues |-> "none"]
  /\ lastDup = {}
  /\ spawnsSince = [p \in PortValues |-> 0]
  /\ killsSince = [p \in PortValues |-> 0]
  /\ retired = {}
  /\ cleanupRuns = 0
  /\ scanErr = FALSE

\* StartPortMonitor has created the controller and started the goroutine
MonitorInit == MonitorAt("upload")

Init ==
  /\ MonitorInit
  /\ FeedIdle /\ ArgsIdle /\ AuthIdle
  /\ WebIdle /\ SrvIdle /\ OrchIdle /\ ShIdle /\ RestIdle


(* ------------------------ forwarding children -------------------------- *)

\* startPortForwarding: exec.CommandContext(ctx, "gh", "codespace", "ports",
\* "forward", "<port>:<port>", ...); the command is run by a goroutine later,
\* so the returned *exec.Cmd has no Process yet
startPortForwarding(port) ==
  [port |-> port, local |-> port, remote |-> port, st |-> "new"]

\* os.Process.Kill: terminates a running process; on a process that has
\* already finished it returns an error, which the callers only log
Kill(cs, h) ==
  IF cs[h].st = "running" THEN [cs EXCEPT ![h].st = "killed"] ELSE cs

\* cmd.Run() in the goroutine, up to the end of Start(): a done context is
\* refused; otherwise the process is created, or creating it fails and Run
\* returns the error
ProcStart(h) ==
  /\ h \in Handles
  /\ cmds[h].st = "new"
  /\ \E st \in {"running", "failed"} :
       /\ FwdCtxDone => st = "failed"
       /\ cmds' = [cmds EXCEPT ![h].st = st]
  /\ UNCHANGED << monitorVars, readerPc, portForwards, historyVars, scanErr >>
  /\ UNCHANGED extVars

\* the forwarding command ends by itself; Run returns and the goroutine
\* logs the failure
ProcExit(h) ==
  /\ h \in Handles
  /\ cmds[h].st = "running"
  /\ cmds' = [cmds EXCEPT ![h].st = "exited"]
  /\ UNCHANGED << monitorVars, readerPc, portForwards, historyVars, scanErr >>
  /\ UNCHANGED extVars

\* exec.CommandContext: a started command is killed when its context is done
ProcCtxKill(h) ==
  /\ h \in Handles
  /\ cmds[h].st = "running"
  /\ FwdCtxDone
  /\ cmds' = [cmds EXCEPT ![h].st = "cancelled"]
  /\ UNCHANGED << monitorVars, readerPc, portForwards, historyVars, scanErr >>
  /\ UNCHANGED extVars

(* --------------------------- handlePortMessage -------------------------- *)

\* case "bound": a port of the reverse-service registry is skipped
SkipBoundNever(port) == FALSE

SkipBound(port) == IsReverseForwardedPort(port)

\* case "bound": start forwarding unless the entry is active
ShouldSpawnAlways(info) == TRUE

ShouldSpawn(info) == ~info.active

\* the entry stored by case "bound"
AfterBoundNoHandle(h) == [active |-> TRUE, cmd |-> NilCmd]

AfterBound(h) == [active |-> TRUE, cmd |-> h]

\* case "unbound": the condition under which the process is killed
ShouldKill(info) ==
  info.active /\ info.cmd # NilCmd /\ ProcessSet(info.cmd)

\* the entry stored by case "unbound"
AfterUnboundKeep(info) == info

AfterUnboundStale(info) == [active |-> FALSE, cmd |-> info.cmd]

AfterUnbound(info) == [active |-> FALSE, cmd |-> NilCmd]

\* portForwards[port] = info: the key is added or its entry replaced; no
\* statement of the program deletes a key
MapStoreOrDelete(m, port, info) ==
  IF info.active
    THEN (port :> info) @@ m
    ELSE [q \in DOMAIN m \ {port} |-> m[q]]

MapStore(m, port, info) == (port :> info) @@ m

\* the bookkeeping of the last events handled for a port
NoteEvent(port, action) ==
  /\ lastAct' = [lastAct EXCEPT ![port] = action]
  /\ lastDup' = IF lastAct[port] = action THEN {port} ELSE {}

HandleBound(port) ==
  /\ NoteEvent(port, "bound")
  /\ killsSince' = [killsSince EXCEPT ![port] = 0]
  /\ retired' = retired
  /\ IF SkipBound(port)
       THEN UNCHANGED << portForwards, cmds, spawnsSince >>
       ELSE IF ShouldSpawn(Lookup(port))
         THEN /\ cmds' = Append(cmds, startPortForwarding(port))
              /\ portForwards' = MapStore(portForwards, port, AfterBound(Len(cmds) + 1))
              /\ spawnsSince' = [spawnsSince EXCEPT ![port] = @ + 1]
         ELSE UNCHANGED << portForwards, cmds, spawnsSince >>

HandleUnbound(port) ==
  LET info == Lookup(port) IN
  /\ NoteEvent(port, "unbound")
  /\ spawnsSince' = [spawnsSince EXCEPT ![port] = 0]
  /\ IF ShouldKill(info)
       THEN /\ cmds' = Kill(cmds, info.cmd)
            /\ killsSince' = [killsSince EXCEPT ![port] = @ + 1]
       ELSE UNCHANGED << cmds, killsSince >>
  /\ retired' = IF info.cmd # NilCmd THEN retired \cup {info.cmd} ELSE retired
  /\ portForwards' = MapStore(portForwards, port, AfterUnbound(info))

handlePortMessage(msg) ==
  CASE msg.Action = "bound"   -> HandleBound(msg.Port)
    [] msg.Action = "unbound" -> HandleUnbound(msg.Port)
    [] OTHER -> UNCHANGED << portForwards, cmds, historyVars >>

(* ------------------------------ the reader ------------------------------ *)

\* json.Unmarshal(line, &message) succeeds
ValidJSON(l) == l.kind # "notjson"

\* json.Unmarshal(message, &typeCheck) succeeds
TypeCheckOk(l) == l.kind # "badshape"

\* typeCheck.Type
TypeOf(l) ==
  CASE l.kind = "port"      -> "port"
    [] l.kind = "log"       -> "log"
    [] l.kind = "othertype" -> "other"
    [] OTHER                -> ""

\* json.Unmarshal(message, &portMsg) succeeds
PortMessageOk(l) == l.field # "bad"

\* the decoded PortMessage: an absent port field leaves Port at 0
PortMessage(l) ==
  [Type |-> "port", Action |-> l.action,
   Port |-> IF l.field = "int" THEN l.port ELSE 0, Protocol |-> l.protocol]

\* select { case <-ctx.Done(): ... default: } at the top of the loop body
CtxDoneSeenNever == FALSE

CtxDoneSeen == monitorCtxDone

\* the model's bound on the environment: no more than MaxSpawns forwarding
\* commands are created
WithinBounds(l) ==
  (~l.long /\ ~CtxDoneSeen /\ l.kind = "port" /\ PortMessageOk(l)
     /\ l.action = "bound") =>
    LET msg == PortMessage(l) IN
    (~SkipBound(msg.Port) /\ ShouldSpawn(Lookup(msg.Port)))
       => Len(cmds) < MaxSpawns

\* one iteration of the reader's scanner loop on the line l
ScanLine(l) ==
  /\ readerPc = "reading"
  /\ WithinBounds(l)
  /\ UNCHANGED monitorVars
  /\ IF l.long
       THEN \* scanner.Scan() returns false with ErrTooLong
            /\ readerPc' = "done"
            /\ scanErr' = TRUE
            /\ UNCHANGED << portForwards, cmds, historyVars >>
       ELSE IF CtxDoneSeen
         THEN \* case <-ctx.Done(): return
              /\ readerPc' = "done"
              /\ UNCHANGED << portForwards, cmds, historyVars, scanErr >>
         ELSE
           /\ UNCHANGED << readerPc, scanErr >>
           /\ IF ~ValidJSON(l) \/ ~TypeCheckOk(l)
                THEN UNCHANGED << portForwards, cmds, historyVars >>
                ELSE CASE TypeOf(l) = "port" ->
                            IF PortMessageOk(l)
                              THEN handlePortMessage(PortMessage(l))
                              ELSE UNCHANGED << portForwards, cmds, historyVars >>
                       [] TypeOf(l) = "log" ->
                            UNCHANGED << portForwards, cmds, historyVars >>
                       [] OTHER ->
                            UNCHANGED << portForwards, cmds, historyVars >>

ReadLine(l) == ScanLine(l) /\ UNCHANGED extVars

\* the output stream of the monitor command is closed once the command has
\* ended: a killed command closes it, and cmd.Wait() closes the pipe after
\* the exit
StreamClosedNever == FALSE

StreamClosed == monCmd = "exited"

\* scanner.Scan() returns false at the end of the stream
ReaderEOF ==
  /\ readerPc = "reading"
  /\ StreamClosed
  /\ readerPc' = "done"
  /\ UNCHANGED << monitorVars, portForwards, cmds, historyVars, scanErr >>
  /\ UNCHANGED extVars


(* ------------------------- the monitor goroutine ------------------------ *)

\* the deferred calls of runAndProcessOutput in the order they run on
\* return (last deferred first)
Deferred == << "cancelForwarding", "cleanupPortForwards" >>

DeferredCallNoCleanup(i) == "cancelForwarding"

DeferredCall(i) == Deferred[i]

\* cleanupPortForwards: the condition under which an entry's process is killed
CleanupShouldKillNone(info) == FALSE

CleanupShouldKill(info) ==
  info.active /\ info.cmd # NilCmd /\ ProcessSet(info.cmd)

\* cleanupPortForwards: the kill loop over the map; the map is not written
cleanupPortForwards(cs) ==
  [h \in DOMAIN cs |->
     IF \E p \in DOMAIN portForwards :
          portForwards[p].cmd = h /\ CleanupShouldKill(portForwards[p])
       THEN Kill(cs, h)[h]
       ELSE cs[h]]

\* runPortMonitor: uploadPortMonitorScript succeeds or fails; a failure
\* ends the goroutine
Upload ==
  /\ monPc = "upload"
  /\ \E ok \in BOOLEAN : monPc' = IF ok THEN "start" ELSE "returned"
  /\ UNCHANGED << monitorCtxDone, stopCalls, deferIdx, readerPc, monCmd,
                  fwdCancelled, portForwards, cmds, historyVars, cleanupRuns,
                  scanErr >>
  /\ UNCHANGED extVars

\* runAndProcessOutput up to the select: cmd.Start() fails (always so under a
\* done context) and the function returns, or the command runs, the map and
\* the deferred calls are set up and the reader goroutine is started
StartCmd ==
  /\ monPc = "start"
  /\ \E ok \in BOOLEAN :
       IF ok /\ ~monitorCtxDone
         THEN /\ monPc' = "select"
              /\ monCmd' = "running"
              /\ readerPc' = "reading"
         ELSE /\ monPc' = "returned"
              /\ UNCHANGED << monCmd, readerPc >>
  /\ UNCHANGED << monitorCtxDone, stopCalls, deferIdx, fwdCancelled,
                  portForwards, cmds, historyVars, cleanupRuns,
                  scanErr >>
  /\ UNCHANGED extVars

\* the remote monitor command ends by itself
MonCmdExit ==
  /\ monCmd = "running"
  /\ monCmd' = "exited"
  /\ UNCHANGED << monitorCtxDone, stopCalls, monPc, deferIdx, readerPc,
                  fwdCancelled, portForwards, cmds, historyVars, cleanupRuns,
                  scanErr >>
  /\ UNCHANGED extVars

\* exec.CommandContext kills the monitor command when ctx is done
MonCtxKill ==
  /\ monCmd = "running"
  /\ monitorCtxDone
  /\ monCmd' = "exited"
  /\ UNCHANGED << monitorCtxDone, stopCalls, monPc, deferIdx, readerPc,
                  fwdCancelled, portForwards, cmds, historyVars, cleanupRuns,
                  scanErr >>
  /\ UNCHANGED extVars

\* select, case <-ctx.Done(): kill the command, then wait for the reader
SelectCancel ==
  /\ monPc = "select"
  /\ monitorCtxDone
  /\ monCmd' = "exited"
  /\ monPc' = "waitDone"
  /\ UNCHANGED << monitorCtxDone, stopCalls, deferIdx, readerPc, fwdCancelled,
                  portForwards, cmds, historyVars, cleanupRuns,
                  scanErr >>
  /\ UNCHANGED extVars

\* select, case err := <-waitErrCh: cmd.Wait() returned
SelectExit ==
  /\ monPc = "select"
  /\ monCmd = "exited"
  /\ monPc' = "waitDone"
  /\ UNCHANGED << monitorCtxDone, stopCalls, deferIdx, readerPc, monCmd,
                  fwdCancelled, portForwards, cmds, historyVars, cleanupRuns,
                  scanErr >>
  /\ UNCHANGED extVars

\* close(done) is deferred in the reader goroutine: the channel is closed
\* when the reader has returned
DoneClosedAlways == TRUE

DoneClosed == readerPc = "done"

\* <-done in either branch, then return: the deferred calls start
WaitDone ==
  /\ monPc = "waitDone"
  /\ DoneClosed
  /\ monPc' = "defer"
  /\ deferIdx' = 1
  /\ UNCHANGED << monitorCtxDone, stopCalls, readerPc, monCmd, fwdCancelled,
                  portForwards, cmds, historyVars, cleanupRuns,
                  scanErr >>
  /\ UNCHANGED extVars

\* one deferred call; after the last one the goroutine ends (wg.Done)
RunDefer ==
  /\ monPc = "defer"
  /\ IF DeferredCall(deferIdx) = "cancelForwarding"
       THEN /\ fwdCancelled' = TRUE
            /\ UNCHANGED << cmds, cleanupRuns >>
       ELSE /\ cmds' = cleanupPortForwards(cmds)
            /\ cleanupRuns' = cleanupRuns + 1
            /\ UNCHANGED fwdCancelled
  /\ IF deferIdx < Len(Deferred)
       THEN deferIdx' = deferIdx + 1 /\ UNCHANGED monPc
       ELSE deferIdx' = 0 /\ monPc' = "returned"
  /\ UNCHANGED << monitorCtxDone, stopCalls, readerPc, monCmd, portForwards,
                  historyVars, scanErr >>
  /\ UNCHANGED extVars

\* PortMonitorController.Stop(): stopFunc cancels monitorCtx
StopBody ==
  /\ stopCalls' = IF stopCalls = "none" THEN "one" ELSE "many"
  /\ monitorCtxDone' = TRUE
  /\ UNCHANGED << monPc, deferIdx, readerPc, monCmd, fwdCancelled,
                  portForwards, cmds, historyVars, cleanupRuns,
                  scanErr >>

Stop == StopBody /\ UNCHANGED extVars

Next ==
  \/ Upload
  \/ StartCmd
  \/ MonCmdExit
  \/ MonCtxKill
  \/ SelectCancel
  \/ SelectExit
  \/ WaitDone
  \/ RunDefer
  \/ Stop
  \/ \E l \in Lines : ReadLine(l)
  \/ ReaderEOF
  \/ \E h \in 1..MaxSpawns : ProcStart(h)
  \/ \E h \in 1..MaxSpawns : ProcExit(h)
  \/ \E h \in 1..MaxSpawns : ProcCtxKill(h)

Spec == Init /\ [][Next]_vars


(* ------------------- the scanner loop over a given stream --------------- *)

\* the lines of the streams: bound and unbound events of an ordinary and of
\* a registry port, a bound event with protocol udp, a line that is not
\* JSON and a line over the scanner's token limit
FeedLines ==
  { l \in PortLines :
       /\ l.field = "int"
       /\ l.port \in {1234, 8080}
       /\ l.action \in {"bound", "unbound"}
       /\ l.protocol = "udp" => (l.port = 8080 /\ l.action = "bound") }
  \cup { l \in OtherLines : l.kind = "notjson" }
  \cup { l \in LongLines : l.kind = "port" }

Streams == UNION { [1..n -> FeedLines] : n \in 0..MaxFeed }

\* runAndProcessOutput has started the monitor command and the reader
\* goroutine, and waits in its select
ReaderStarted ==
  /\ monitorCtxDone = FALSE
  /\ stopCalls = "none"
  /\ monPc = "select"
  /\ deferIdx = 0
  /\ readerPc = "reading"
  /\ monCmd = "running"
  /\ fwdCancelled = FALSE
  /\ portForwards = << >>
  /\ cmds = << >>
  /\ lastAct = [p \in PortValues |-> "none"]
  /\ lastDup = {}
  /\ spawnsSince = [p \in PortValues |-> 0]
  /\ killsSince = [p \in PortValues |-> 0]
  /\ retired = {}
  /\ cleanupRuns = 0
  /\ scanErr = FALSE

FeedInit ==
  /\ ReaderStarted
  /\ stream \in Streams
  /\ scanned = 0
  /\ current = 0
  /\ stoppedAt = 0
  /\ handledLog = << >>
  /\ ArgsIdle
  /\ AuthIdle
  /\ WebIdle /\ SrvIdle /\ OrchIdle /\ ShIdle /\ RestIdle

\* the line reaches handlePortMessage when the loop body decodes it
Dispatches(l) ==
  /\ ~l.long
  /\ ValidJSON(l)
  /\ TypeCheckOk(l)
  /\ TypeOf(l) = "port"
  /\ PortMessageOk(l)

\* for scanner.Scan() { body }: Scan is called again when the body of the
\* line before has finished
ScanReadyAlways == TRUE

ScanReady == current = 0

\* scanner.Scan() returns the next line of the stream
FeedScan ==
  /\ readerPc = "reading"
  /\ ScanReady
  /\ scanned < Len(stream)
  /\ scanned' = scanned + 1
  /\ current' = scanned + 1
  /\ UNCHANGED << monitorVars, readerPc, portForwards, cmds, historyVars,
                  scanErr, stream, stoppedAt, handledLog, argsVars,
                  authVars, web, srv, orch, sh, cfg, tcp, sel >>

\* the loop body on the line Scan returned: the cancellation check, the
\* decoding and the call of handlePortMessage
FeedBody ==
  /\ current # 0
  /\ LET l == stream[current] IN
       /\ ScanLine(l)
       /\ handledLog' = IF Dispatches(l) /\ ~CtxDoneSeen
                          THEN Append(handledLog, current)
                          ELSE handledLog
       /\ stoppedAt' = IF l.long \/ CtxDoneSeen THEN current ELSE stoppedAt
  /\ current' = 0
  /\ UNCHANGED << stream, scanned, argsVars, authVars, web, srv, orch, sh, cfg, tcp, sel >>

\* Scan returns false: the stream is at its end and the command has closed it
FeedEOF ==
  /\ current = 0
  /\ scanned = Len(stream)
  /\ ReaderEOF

FeedNext ==
  \/ FeedScan
  \/ FeedBody
  \/ FeedEOF
  \/ MonCmdExit
  \/ MonCtxKill
  \/ Stop
  \/ \E h \in 1..MaxSpawns : ProcStart(h)

FeedSpec == FeedInit /\ [][FeedNext]_vars


(* ------------- the reverse-service registry and the arguments ----------- *)

\* entries a registry of the model is made of
RegistryEntries ==
  [Port : {1234, 9222}, Description : {"Test Service"},
   Enabled : BOOLEAN, AlwaysForward : BOOLEAN]

\* values of the package variable WellKnownPorts: its initial value and the
\* lists assigned to it
RegistryValues ==
  {WellKnownPorts} \cup UNION { [1..n -> RegistryEntries] : n \in 0..MaxRegistry }

\* ports on which a local service may listen
LocalPorts == {1234, 9222}

\* arguments of BuildSSHArgs
SocketPaths == {"/tmp/ado-auth-1.sock", "/tmp/socket"}

ServerPorts == {1234, 8080}

RemainingArgsValues == { << >>, << "echo", "hello" >>, << "-t" >> }

ArgsInit ==
  /\ MonitorInit
  /\ FeedIdle
  /\ AuthIdle
  /\ WebIdle /\ SrvIdle /\ OrchIdle /\ ShIdle /\ RestIdle
  /\ registry \in RegistryValues
  /\ listening = {}
  /\ lastCall = "none"
  /\ callForwards = << >>
  /\ callSSH = << >>
  /\ probed = {}
  /\ boundForwards = << >>
  /\ outArgs = << >>

\* isPortBound: net.Dial("tcp", "localhost:<port>") succeeds
isPortBound(port) == port \in listening

\* the test of the loop of GetBoundReverseForwards
IncludedIgnoringEnabled(forward) ==
  forward.AlwaysForward \/ isPortBound(forward.Port)

Included(forward) ==
  forward.Enabled /\ (forward.AlwaysForward \/ isPortBound(forward.Port))

\* GetBoundReverseForwards: the entries that pass the test, appended in the
\* order of WellKnownPorts
GetBoundReverseForwards == SelectSeq(registry, Included)

\* fmt.Sprintf("%d:localhost:%d", forward.Port, forward.Port)
ReverseForwardSpecRemoteOnly(forward) == ToString(forward.Port)

ReverseForwardSpec(forward) ==
  ToString(forward.Port) \o ":localhost:" \o ToString(forward.Port)

\* BuildReverseForwardArgs: "-R" and the forward spec appended per forward
RECURSIVE BuildReverseForwardArgs(_)
BuildReverseForwardArgs(forwards) ==
  IF forwards = << >> THEN << >>
  ELSE << "-R", ReverseForwardSpec(Head(forwards)) >>
         \o BuildReverseForwardArgs(Tail(forwards))

\* fmt.Sprintf("%s:localhost:%d", socketPath, port)
SocketForwardSpecNoHost(socketPath, port) ==
  socketPath \o ":" \o ToString(port)

SocketForwardSpec(socketPath, port) ==
  socketPath \o ":localhost:" \o ToString(port)

\* BuildSSHArgs: the arguments added for the bound forwards
ReverseArgsForNone(forwards) == << >>

ReverseArgsFor(forwards) ==
  IF Len(forwards) > 0 THEN BuildReverseForwardArgs(forwards) ELSE << >>

\* BuildSSHArgs on the receiver with RemainingArgs remaining, where forwards
\* is the value GetBoundReverseForwards returned to it
BuildSSHArgs(remaining, socketPath, port, forwards) ==
  << "--" >>
    \o << "-R", SocketForwardSpec(socketPath, port) >>
    \o ReverseArgsFor(forwards)
    \o << "-t" >>
    \o remaining

\* a local service starts or stops listening on port p
ListenChange(p) ==
  /\ listening' = IF p \in listening THEN listening \ {p} ELSE listening \cup {p}
  /\ UNCHANGED << monitorVars, readerPc, portForwards, cmds, historyVars,
                  scanErr, feedVars, authVars, web, srv, orch, sh, cfg, tcp, sel, registry, lastCall, callForwards,
                  callSSH, probed, boundForwards, outArgs >>

\* a call of GetBoundReverseForwards()
CallGetBoundReverseForwards ==
  /\ lastCall' = "GetBoundReverseForwards"
  /\ probed' = listening
  /\ boundForwards' = GetBoundReverseForwards
  /\ callForwards' = << >>
  /\ callSSH' = << >>
  /\ outArgs' = << >>
  /\ UNCHANGED << monitorVars, readerPc, portForwards, cmds, historyVars,
                  scanErr, feedVars, authVars, web, srv, orch, sh, cfg, tcp, sel, registry, listening >>

\* a call of BuildReverseForwardArgs(forwards)
CallBuildReverseForwardArgs(forwards) ==
  /\ lastCall' = "BuildReverseForwardArgs"
  /\ callForwards' = forwards
  /\ outArgs' = BuildReverseForwardArgs(forwards)
  /\ callSSH' = << >>
  /\ UNCHANGED << monitorVars, readerPc, portForwards, cmds, historyVars,
                  scanErr, feedVars, authVars, web, srv, orch, sh, cfg, tcp, sel, registry, listening, probed,
                  boundForwards >>

\* a call of args.BuildSSHArgs(socketPath, port)
CallBuildSSHArgs(remaining, socketPath, port) ==
  /\ lastCall' = "BuildSSHArgs"
  /\ callSSH' = [RemainingArgs |-> remaining, socketPath |-> socketPath,
                 port |-> port]
  /\ probed' = listening
  /\ boundForwards' = GetBoundReverseForwards
  /\ outArgs' = BuildSSHArgs(remaining, socketPath, port, GetBoundReverseForwards)
  /\ callForwards' = << >>
  /\ UNCHANGED << monitorVars, readerPc, portForwards, cmds, historyVars,
                  scanErr, feedVars, authVars, web, srv, orch, sh, cfg, tcp, sel, registry, listening >>

ArgsNext ==
  \/ \E p \in LocalPorts : ListenChange(p)
  \/ CallGetBoundReverseForwards
  \/ \E forwards \in {registry, boundForwards} :
        CallBuildReverseForwardArgs(forwards)
  \/ \E remaining \in RemainingArgsValues, socketPath \in SocketPaths,
         port \in ServerPorts :
        CallBuildSSHArgs(remaining, socketPath, port)

ArgsSpec == ArgsInit /\ [][ArgsNext]_vars


(* ----------------- one connection to the credential broker -------------- *)

\* the separator of the scopes in data.scopes
Space == " "

\* values of a non-empty data.scopes, as sequences of characters: "a",
\* "a b" and "a  b"
ScopeTexts ==
  { << "a" >>, << "a", Space, "b" >>, << "a", Space, Space, "b" >> }

\* the scope requested when the request names none
DefaultScope == << "499b84ac-1321-427f-aa17-267ca6975798/.default" >>

\* strings.Split(s, sep) for a separator of one character: the parts of s
\* between the occurrences of sep, the empty parts included
RECURSIVE Split(_, _)
Split(s, sep) ==
  IF \A i \in 1..Len(s) : s[i] # sep
    THEN << s >>
    ELSE LET i == CHOOSE i \in 1..Len(s) :
                     s[i] = sep /\ \A j \in 1..(i - 1) : s[j] # sep
         IN  << SubSeq(s, 1, i - 1) >> \o Split(SubSeq(s, i + 1, Len(s)), sep)

\* A frame a client writes: the bytes up to a form feed.
\*   json:   invalid - the bytes are not JSON
\*   type:   the type field of the JSON object ("" when absent)
\*   scopes: absent  - no data.scopes field
\*           empty   - data.scopes is ""
\*           text    - data.scopes is the non-empty string of field text
\*           badtype - data.scopes is not a JSON string
\*   text:   the characters of data.scopes
RequestFrames ==
  [json : {"invalid"}, type : {""}, scopes : {"absent"}, text : {<< >>}]
  \cup [json : {"valid"}, type : {"getAccessToken"},
        scopes : {"absent", "empty", "badtype"}, text : {<< >>}]
  \cup [json : {"valid"}, type : {"getAccessToken"},
        scopes : {"text"}, text : ScopeTexts]
  \cup [json : {"valid"}, type : {"other", ""}, scopes : {"absent"},
        text : {<< >>}]

\* the frame delimiter
FormFeed == "\f"

\* handleConnection has been started for an accepted connection
AuthInit ==
  /\ MonitorInit
  /\ FeedIdle
  /\ ArgsIdle
  /\ WebIdle /\ SrvIdle /\ OrchIdle /\ ShIdle /\ RestIdle
  /\ brokerCtxDone = FALSE
  /\ connPc = "top"
  /\ clientOpen = TRUE
  /\ inbox = << >>
  /\ outbox = << >>
  /\ reqLog = << >>
  /\ tokenCalls = << >>

\* json.Unmarshal([]byte(jsonData), &tokenReq) succeeds
UnmarshalOk(f) == f.json = "valid" /\ f.scopes # "badtype"

\* the scopes of the token request: the default scope when data.scopes is
\* nil or empty, else the parts of data.scopes between spaces
ScopesOfNoDefault(f) == Split(f.text, Space)

ScopesOf(f) ==
  IF f.scopes \in {"absent", "empty"}
    THEN << DefaultScope >>
    ELSE Split(f.text, Space)

TokenResponse(token) == [type |-> "accessToken", data |-> token]

ErrorResponse(err) ==
  [type |-> "error", error |-> "Failed to get access token: " \o err]

\* append(bytes, '\f'): the JSON document followed by the delimiter
Framed(doc) == [doc |-> doc, end |-> FormFeed]

\* the frames written when GetToken returned an error
ReplyOnErrorNone(err) == << >>

ReplyOnError(err) == << Framed(ErrorResponse(err)) >>

\* the frames written for a getAccessToken request
Reply(outcome) ==
  IF outcome = "ok"
    THEN << Framed(TokenResponse("token")) >>
    ELSE ReplyOnError("az failed")

\* the position of the handler after a frame that does not unmarshal or
\* whose type is unknown: continue, or the end of the loop body
AfterIgnoredFrameClose == "closed"

AfterIgnoredFrame == "top"

\* the loop body after ReadString returned the frame f; outcome is the
\* result of cred.GetToken, writeOk that of writer.Write and writer.Flush
HandleFrame(f, outcome, writeOk) ==
  IF ~UnmarshalOk(f)
    THEN \* continue
         /\ connPc' = AfterIgnoredFrame
         /\ reqLog' = Append(reqLog, [frame |-> f, outcome |-> "none",
                                      scopes |-> << >>,
                                      peerOpen |-> clientOpen,
                                        cancelled |-> brokerCtxDone,
                                      first |-> Len(outbox), last |-> Len(outbox)])
         /\ UNCHANGED << outbox, tokenCalls >>
    ELSE IF f.type = "getAccessToken"
      THEN /\ tokenCalls' = Append(tokenCalls, ScopesOf(f))
           /\ IF Reply(outcome) # << >> /\ ~writeOk
                THEN \* break: the deferred conn.Close() runs
                     /\ connPc' = "closed"
                     /\ UNCHANGED outbox
                ELSE /\ connPc' = "top"
                     /\ outbox' = outbox \o Reply(outcome)
           /\ reqLog' = Append(reqLog, [frame |-> f, outcome |-> outcome,
                                        scopes |-> ScopesOf(f),
                                        peerOpen |-> clientOpen,
                                        cancelled |-> brokerCtxDone,
                                        first |-> Len(outbox),
                                        last |-> Len(outbox')])
      ELSE \* unknown message type
           /\ connPc' = AfterIgnoredFrame
           /\ reqLog' = Append(reqLog, [frame |-> f, outcome |-> "none",
                                        scopes |-> << >>,
                                        peerOpen |-> clientOpen,
                                        cancelled |-> brokerCtxDone,
                                        first |-> Len(outbox), last |-> Len(outbox)])
           /\ UNCHANGED << outbox, tokenCalls >>

\* the client writes a frame
ClientSend(f) ==
  /\ clientOpen
  /\ Len(inbox) + Len(reqLog) < MaxFrames
  /\ inbox' = Append(inbox, f)
  /\ UNCHANGED << monitorVars, readerPc, portForwards, cmds, historyVars,
                  scanErr, feedVars, argsVars, web, srv, orch, sh, cfg, tcp, sel, brokerCtxDone, connPc,
                  clientOpen, outbox, reqLog, tokenCalls >>

\* the client closes the connection
ClientClose ==
  /\ clientOpen
  /\ clientOpen' = FALSE
  /\ UNCHANGED << monitorVars, readerPc, portForwards, cmds, historyVars,
                  scanErr, feedVars, argsVars, web, srv, orch, sh, cfg, tcp, sel, brokerCtxDone, connPc, inbox,
                  outbox, reqLog, tokenCalls >>

\* main's context is cancelled (a signal, or main returns)
CancelBroker ==
  /\ ~brokerCtxDone
  /\ brokerCtxDone' = TRUE
  /\ UNCHANGED << monitorVars, readerPc, portForwards, cmds, historyVars,
                  scanErr, feedVars, argsVars, web, srv, orch, sh, cfg, tcp, sel, connPc, clientOpen, inbox,
                  outbox, reqLog, tokenCalls >>

\* the select at the top of the loop: return when the context is done
HandlerTop ==
  /\ connPc = "top"
  /\ connPc' = IF brokerCtxDone THEN "closed" ELSE "read"
  /\ UNCHANGED << monitorVars, readerPc, portForwards, cmds, historyVars,
                  scanErr, feedVars, argsVars, web, srv, orch, sh, cfg, tcp, sel, brokerCtxDone, clientOpen,
                  inbox, outbox, reqLog, tokenCalls >>

\* reader.ReadString('\f') returns a frame, which is handled; GetToken
\* fails under a done context, and a write to a connected client succeeds
HandlerRead ==
  /\ connPc = "read"
  /\ inbox # << >>
  /\ inbox' = Tail(inbox)
  /\ \E outcome \in {"ok", "fail"}, writeOk \in BOOLEAN :
       /\ brokerCtxDone => outcome = "fail"
       /\ clientOpen => writeOk
       /\ HandleFrame(Head(inbox), outcome, writeOk)
  /\ UNCHANGED << monitorVars, readerPc, portForwards, cmds, historyVars,
                  scanErr, feedVars, argsVars, web, srv, orch, sh, cfg, tcp, sel, brokerCtxDone, clientOpen >>

\* reader.ReadString('\f') returns an error: the client has closed
HandlerReadError ==
  /\ connPc = "read"
  /\ inbox = << >>
  /\ ~clientOpen
  /\ connPc' = "closed"
  /\ UNCHANGED << monitorVars, readerPc, portForwards, cmds, historyVars,
                  scanErr, feedVars, argsVars, web, srv, orch, sh, cfg, tcp, sel, brokerCtxDone, clientOpen,
                  inbox, outbox, reqLog, tokenCalls >>

AuthNext ==
  \/ \E f \in RequestFrames : ClientSend(f)
  \/ ClientClose
  \/ CancelBroker
  \/ HandlerTop
  \/ HandlerRead
  \/ HandlerReadError

AuthSpec == AuthInit /\ [][AuthNext]_vars


(* ------------- the credential broker's accept loop (AcceptSpec) --------- *)

\* the frames of the clients in AcceptSpec: a token request without scopes
\* and a frame that is not JSON
AcceptFrames ==
  { f \in RequestFrames :
       \/ f.json = "invalid"
       \/ f.type = "getAccessToken" /\ f.scopes = "absent" }

\* startServer has returned: the listener is open and the accept loop
\* goroutine was started; main goes on with the same context
AcceptInit ==
  /\ MonitorInit
  /\ FeedIdle /\ ArgsIdle
  /\ WebIdle /\ OrchIdle /\ ShIdle /\ RestIdle
  /\ srv = [acceptPc |-> "top", listener |-> "open", pending |-> FALSE,
            mainPc |-> "running", exit |-> "none"]
  /\ brokerCtxDone = FALSE
  /\ connPc = "none"
  /\ clientOpen = FALSE
  /\ inbox = << >>
  /\ outbox = << >>
  /\ reqLog = << >>
  /\ tokenCalls = << >>

\* the select at the top of the accept loop: when the context is done the
\* listener is closed and the goroutine returns
AcceptTop ==
  /\ srv.acceptPc = "top"
  /\ srv' = IF brokerCtxDone
              THEN [srv EXCEPT !.acceptPc = "returned", !.listener = "closed",
                               !.exit = "ctxDone"]
              ELSE [srv EXCEPT !.acceptPc = "accept"]
  /\ UNCHANGED << monitorAll, feedVars, argsVars, authVars, web, orch, sh, cfg, tcp, sel >>

\* a client connects to the broker's port
ClientDial ==
  /\ srv.listener = "open"
  /\ ~srv.pending
  /\ connPc = "none"
  /\ srv' = [srv EXCEPT !.pending = TRUE]
  /\ UNCHANGED << monitorAll, feedVars, argsVars, authVars, web, orch, sh, cfg, tcp, sel >>

\* listener.Accept() returns a connection: go handleConnection(ctx, conn, cred)
AcceptConn ==
  /\ srv.acceptPc = "accept"
  /\ srv.listener = "open"
  /\ srv.pending
  /\ srv' = [srv EXCEPT !.pending = FALSE, !.acceptPc = "top"]
  /\ connPc' = "top"
  /\ clientOpen' = TRUE
  /\ UNCHANGED << monitorAll, feedVars, argsVars, web, orch, sh, cfg, tcp, sel,
                  brokerCtxDone, inbox, outbox, reqLog, tokenCalls >>

\* listener.Accept() returns a temporary error: sleep and continue
AcceptTemporary ==
  /\ srv.acceptPc = "accept"
  /\ srv.listener = "open"
  /\ srv' = [srv EXCEPT !.acceptPc = "top"]
  /\ UNCHANGED << monitorAll, feedVars, argsVars, authVars, web, orch, sh, cfg, tcp, sel >>

\* listener.Accept() fails because the listener is closed: the goroutine
\* returns, whether the context is done or not
AcceptFail ==
  /\ srv.acceptPc = "accept"
  /\ srv.listener = "closed"
  /\ srv' = [srv EXCEPT !.acceptPc = "returned", !.exit = "acceptError"]
  /\ UNCHANGED << monitorAll, feedVars, argsVars, authVars, web, orch, sh, cfg, tcp, sel >>

\* main's deferred serverConfig.Listener.Close()
AfterListenerCloseNoop(listener) == listener

AfterListenerClose(listener) == "closed"

\* main returns: the deferred Listener.Close() runs, then the deferred
\* cancel()
MainReturn ==
  /\ srv.mainPc = "running"
  /\ srv' = [srv EXCEPT !.mainPc = "returned",
                        !.listener = AfterListenerClose(@)]
  /\ brokerCtxDone' = TRUE
  /\ UNCHANGED << monitorAll, feedVars, argsVars, web, orch, sh, cfg, tcp, sel, connPc,
                  clientOpen, inbox, outbox, reqLog, tokenCalls >>

AcceptNext ==
  \/ AcceptTop
  \/ ClientDial
  \/ AcceptConn
  \/ AcceptTemporary
  \/ AcceptFail
  \/ MainReturn
  \/ CancelBroker
  \/ \E f \in AcceptFrames : ClientSend(f)
  \/ ClientClose
  \/ HandlerTop
  \/ HandlerRead
  \/ HandlerReadError

AcceptSpec == AcceptInit /\ [][AcceptNext]_vars

\* The goroutine of the accept loop is scheduled, and once the context is
\* cancelled main returns: every call main can be blocked in takes the
\* context and ends when it is cancelled.
AcceptLiveSpec ==
  /\ AcceptSpec
  /\ WF_vars(AcceptTop)
  /\ WF_vars(AcceptFail)
  /\ WF_vars(brokerCtxDone /\ MainReturn)


(* ------------------- the session orchestrator (OrchSpec) ---------------- *)

\* the statements of main in program order: main.go, and the main that
\* starts the browser service
MainProgram(variant) ==
  IF variant = "plain"
    THEN << "SetupServer", "SelectCodespace", "BuildSSHArgs",
            "StartPortMonitor", "UploadAuthHelpers", "ExecInteractive" >>
    ELSE << "SetupServer", "SelectCodespace", "NewBrowserService",
            "BuildSSHArgs", "UploadAuthHelpers", "StartPortMonitor",
            "ExecInteractive" >>

\* the statement main is at
Stmt ==
  IF orch.phase = "run" THEN MainProgram(orch.variant)[orch.at] ELSE "none"

\* the port of a started browser service; 0 stands for the nil service
BrowserPort == 4000

\* the lines of the monitor's output in OrchSpec: bound and unbound events
\* of port 8080
OrchLines ==
  { l \in PortLines :
       /\ l.field = "int" /\ l.port = 8080 /\ l.protocol = "tcp"
       /\ l.action \in {"bound", "unbound"} }

\* main has parsed its arguments and registered the deferred cancel()
OrchInit ==
  /\ MonitorAt("notStarted")
  /\ FeedIdle /\ ArgsIdle /\ AuthIdle
  /\ WebIdle /\ SrvIdle /\ ShIdle /\ RestIdle
  /\ \E variant \in {"plain", "browser"} :
       orch = [variant |-> variant, phase |-> "run", at |-> 1,
               ctxDone |-> FALSE, signalled |-> FALSE,
               defers |-> << "cancel" >>, errs |-> {},
               listener |-> "none", browser |-> "none", sshArgs |-> << >>,
               transport |-> "none", waitReturned |-> FALSE]

\* the variables of the port monitor but monitorCtxDone
monitorButCtx == << stopCalls, monPc, deferIdx, monCmd, fwdCancelled,
                   cleanupRuns, readerPc, portForwards, cmds, historyVars,
                   scanErr >>

\* what OrchSpec leaves alone besides the port monitor
orchOthers == << feedVars, argsVars, authVars, web, srv, sh, cfg, tcp,
                sel >>

\* the stages whose failure makes main return
FatalNever(stage) == FALSE

FatalAlways(stage) == TRUE

Fatal(stage) ==
  stage \in {"SetupServer", "SelectCodespace", "StartPortMonitor"}

\* main after the statement it is at: on success the deferred call, if
\* any, is registered and main goes on; a fatal failure makes main return,
\* any other failure is passed over. errs records the stages that
\* returned an error.
AfterStmt(ok, deferred) ==
  IF ok
    THEN [orch EXCEPT !.at = @ + 1, !.defers = @ \o deferred]
    ELSE IF Fatal(Stmt)
      THEN [orch EXCEPT !.phase = "defers", !.errs = @ \cup {Stmt}]
      ELSE [orch EXCEPT !.at = @ + 1, !.errs = @ \cup {Stmt}]

\* SIGINT or SIGTERM: the signal goroutine calls cancel(); the context of
\* the port monitor is derived from main's
Signal ==
  /\ orch.phase # "exited"
  /\ ~orch.signalled
  /\ orch' = [orch EXCEPT !.ctxDone = TRUE, !.signalled = TRUE]
  /\ monitorCtxDone' = TRUE
  /\ UNCHANGED << monitorButCtx, orchOthers >>

\* serverConfig, err := SetupServer(ctx)
MainSetupServer(ok) ==
  /\ Stmt = "SetupServer"
  /\ orch' = [AfterStmt(ok, << "Listener.Close" >>) EXCEPT
                 !.listener = IF ok THEN "open" ELSE @]
  /\ UNCHANGED << monitorAll, orchOthers >>

\* the codespace name is given, or SelectCodespace returns one, or it fails
MainSelectCodespace(ok) ==
  /\ Stmt = "SelectCodespace"
  /\ orch' = AfterStmt(ok, << >>)
  /\ UNCHANGED << monitorAll, orchOthers >>

\* browserService, err = NewBrowserService(ctx)
MainNewBrowserService(ok) ==
  /\ Stmt = "NewBrowserService"
  /\ orch' = [AfterStmt(ok, << "browserService.Stop" >>) EXCEPT
                 !.browser = IF ok THEN "started" ELSE "failed"]
  /\ UNCHANGED << monitorAll, orchOthers >>

\* BuildSSHArgs(socketPath, port, browserService) of the main with the
\* browser service; browserPort is 0 for the nil service
BuildSSHArgsBrowser(remaining, socketPath, port, forwards, browserPort) ==
  << "--" >>
    \o << "-R", SocketForwardSpec(socketPath, port) >>
    \o (IF browserPort # 0
          THEN << "-R", ReverseForwardSpec([Port |-> browserPort]) >>
          ELSE << >>)
    \o ReverseArgsFor(forwards)
    \o << "-t" >>
    \o (IF Len(remaining) > 0 THEN remaining
        ELSE IF browserPort # 0
          THEN << "export BROWSER='$HOME/browser-opener.sh' GH_ADO_CODESPACES_BROWSER_PORT="
                    \o ToString(browserPort) \o "; bash -l" >>
          ELSE << >>)

\* sshArgs := args.BuildSSHArgs(...)
MainBuildSSHArgs ==
  /\ Stmt = "BuildSSHArgs"
  /\ orch' = [AfterStmt(TRUE, << >>) EXCEPT !.sshArgs =
       IF orch.variant = "plain"
         THEN BuildSSHArgs(<< >>, "/tmp/socket", 1234, GetBoundReverseForwards)
         ELSE BuildSSHArgsBrowser(<< >>, "/tmp/socket", 1234,
                                  GetBoundReverseForwards,
                                  IF orch.browser = "started"
                                    THEN BrowserPort ELSE 0)]
  /\ UNCHANGED << monitorAll, orchOthers >>

\* UploadAuthHelpers and the other uploads: a failure is passed over
MainUpload(ok) ==
  /\ Stmt = "UploadAuthHelpers"
  /\ orch' = AfterStmt(ok, << >>)
  /\ UNCHANGED << monitorAll, orchOthers >>

\* monitorController, err := StartPortMonitor(ctx, name): initDebugLogger
\* fails, or the monitor goroutine is started
MainStartPortMonitor(ok) ==
  /\ Stmt = "StartPortMonitor"
  /\ orch' = AfterStmt(ok, << "monitorController.Stop" >>)
  /\ monPc' = IF ok THEN "upload" ELSE monPc
  /\ UNCHANGED << monitorCtxDone, stopCalls, deferIdx, monCmd, fwdCancelled,
                  cleanupRuns, readerPc, portForwards, cmds, historyVars,
                  scanErr, orchOthers >>

\* gh.ExecInteractive(ctx, finalArgs...) starts the transport
MainExec ==
  /\ Stmt = "ExecInteractive"
  /\ orch' = [orch EXCEPT !.phase = "exec", !.transport = "running"]
  /\ UNCHANGED << monitorAll, orchOthers >>

\* gh.ExecInteractive returns: the transport has ended, by itself or
\* because the context is cancelled; main returns
MainExecReturn ==
  /\ orch.phase = "exec"
  /\ orch' = [orch EXCEPT !.phase = "defers", !.transport = "exited"]
  /\ UNCHANGED << monitorAll, orchOthers >>

\* PortMonitorController.Wait(): waitGroup.Wait() returns when the monitor
\* goroutine has called wg.Done()
MonitorFinishedAlways == TRUE

MonitorFinished == monPc = "returned"

\* main returns: the deferred calls run, the last registered first
MainDefer ==
  /\ orch.phase = "defers"
  /\ IF orch.defers = << >>
       THEN /\ orch' = [orch EXCEPT !.phase = "exited"]
            /\ UNCHANGED monitorAll
       ELSE LET top  == orch.defers[Len(orch.defers)]
                rest == SubSeq(orch.defers, 1, Len(orch.defers) - 1)
            IN  CASE top = "monitorController.Stop" ->
                       /\ StopBody
                       /\ orch' = [orch EXCEPT !.defers =
                                     Append(rest, "monitorController.Wait")]
                  [] top = "monitorController.Wait" ->
                       /\ MonitorFinished
                       /\ orch' = [orch EXCEPT !.defers = rest,
                                               !.waitReturned = TRUE]
                       /\ UNCHANGED monitorAll
                  [] top = "browserService.Stop" ->
                       /\ orch' = [orch EXCEPT !.defers = rest,
                                               !.browser = "stopped"]
                       /\ UNCHANGED monitorAll
                  [] top = "Listener.Close" ->
                       /\ orch' = [orch EXCEPT !.defers = rest,
                                               !.listener = "closed"]
                       /\ UNCHANGED monitorAll
                  [] top = "cancel" ->
                       /\ orch' = [orch EXCEPT !.defers = rest,
                                               !.ctxDone = TRUE]
                       /\ monitorCtxDone' = TRUE
                       /\ UNCHANGED monitorButCtx
  /\ UNCHANGED orchOthers

OrchNext ==
  \/ Signal
  \/ \E ok \in BOOLEAN : MainSetupServer(ok)
  \/ \E ok \in BOOLEAN : MainSelectCodespace(ok)
  \/ \E ok \in BOOLEAN : MainNewBrowserService(ok)
  \/ MainBuildSSHArgs
  \/ \E ok \in BOOLEAN : MainUpload(ok)
  \/ \E ok \in BOOLEAN : MainStartPortMonitor(ok)
  \/ MainExec
  \/ MainExecReturn
  \/ MainDefer
  \/ Upload
  \/ StartCmd
  \/ MonCmdExit
  \/ MonCtxKill
  \/ SelectCancel
  \/ SelectExit
  \/ WaitDone
  \/ RunDefer
  \/ \E l \in OrchLines : ReadLine(l)
  \/ ReaderEOF
  \/ \E h \in 1..MaxSpawns : ProcStart(h)
  \/ \E h \in 1..MaxSpawns : ProcExit(h)
  \/ \E h \in 1..MaxSpawns : ProcCtxKill(h)

OrchSpec == OrchInit /\ [][OrchNext]_vars


(* --------------- teardown of the port monitor (MonLiveSpec) ------------- *)

\* the port monitor of Spec on the events of port 8080, with Stop() called
\* at any moment
MonLiveNext ==
  \/ Upload
  \/ StartCmd
  \/ MonCmdExit
  \/ MonCtxKill
  \/ SelectCancel
  \/ SelectExit
  \/ WaitDone
  \/ RunDefer
  \/ Stop
  \/ \E l \in OrchLines : ReadLine(l)
  \/ ReaderEOF
  \/ \E h \in 1..MaxSpawns : ProcStart(h)
  \/ \E h \in 1..MaxSpawns : ProcExit(h)
  \/ \E h \in 1..MaxSpawns : ProcCtxKill(h)

\* every step of the monitor goroutine and of the reader that can be taken
\* is taken: the upload commands end, the select and the deferred calls
\* run, Scan returns on a closed stream, and the watcher goroutine of
\* exec.CommandContext kills a started command whose context is done. No
\* fairness is asked of the remote script (lines, the end of the command)
\* nor of the forwarding commands ending by themselves.
MonLiveSpec ==
  /\ Init
  /\ [][MonLiveNext]_vars
  /\ WF_vars(Upload)
  /\ WF_vars(StartCmd)
  /\ WF_vars(MonCtxKill)
  /\ WF_vars(SelectCancel)
  /\ WF_vars(SelectExit)
  /\ WF_vars(ReaderEOF)
  /\ WF_vars(WaitDone)
  /\ WF_vars(RunDefer)
  /\ \A h \in 1..MaxSpawns : WF_vars(ProcCtxKill(h))


(* ------------------- the HTTP broker services (WebSpec) ----------------- *)

\* everything but the HTTP broker service
webOthers == << monitorAll, feedVars, argsVars, authVars, srv, orch, sh, cfg, tcp, sel >>

\* A request to /notify.
\*   json:  none             - the body does not start with a JSON value
\*          value            - the body is one JSON value
\*          valueThenGarbage - a JSON value followed by other bytes
\*   shape: object  - the value is an object whose title and message, when
\*                    present, are strings
\*          badtype - the value does not decode into NotificationRequest
\*   title, message: the strings of the object ("" when absent)
NotifyRequests ==
  [method : {"GET"}, json : {"value"}, shape : {"object"},
   title : {"t"}, message : {"m"}]
  \cup [method : {"POST"}, json : {"none"}, shape : {"none"},
        title : {""}, message : {""}]
  \cup [method : {"POST"}, json : {"value", "valueThenGarbage"},
        shape : {"object"}, title : {"", "t"}, message : {"", "m"}]
  \cup [method : {"POST"}, json : {"value", "valueThenGarbage"},
        shape : {"badtype"}, title : {""}, message : {""}]

\* A request to /open.
\*   url: absent      - no url parameter in the query
\*        empty       - url=
\*        undecodable - url=%zz: the value cannot be unescaped
\*        value       - url=https%3A%2F%2Fexample.com
OpenRequests ==
  [method : {"GET"}, url : {"value"}]
  \cup [method : {"POST"}, url : {"absent", "empty", "undecodable", "value"}]

\* NewNotificationService or NewBrowserService has returned the service:
\* the listener is open and the serving goroutine was started
WebInit ==
  /\ MonitorInit
  /\ FeedIdle /\ ArgsIdle /\ AuthIdle
  /\ SrvIdle /\ OrchIdle /\ ShIdle /\ RestIdle
  /\ \E kind \in {"notification", "browser"} :
       web = [kind |-> kind, listener |-> "open", servePc |-> "start",
              inShutdown |-> FALSE, stopPc |-> "none", log |-> << >>,
              dials |-> {}]

\* r.Method != http.MethodPost is answered with 405
MethodAllowedAny(r) == TRUE

MethodAllowed(r) == r.method = "POST"

\* json.NewDecoder(r.Body).Decode(&req) returns nil: the decoder reads the
\* first JSON value of the body and leaves what follows it unread
DecodeOk(r) == r.json \in {"value", "valueThenGarbage"} /\ r.shape = "object"

\* handleNotification: the status written and whether beeep.Notify was
\* called; notifyOk is the result of beeep.Notify
handleNotification(r, notifyOk) ==
  IF ~MethodAllowed(r) THEN [status |-> 405, called |-> FALSE]
  ELSE IF ~DecodeOk(r) THEN [status |-> 400, called |-> FALSE]
  ELSE IF r.title = "" THEN [status |-> 400, called |-> FALSE]
  ELSE IF r.message = "" THEN [status |-> 400, called |-> FALSE]
  ELSE IF ~notifyOk THEN [status |-> 500, called |-> TRUE]
  ELSE [status |-> 200, called |-> TRUE]

\* r.URL.Query().Get("url"): Query() drops a pair that cannot be unescaped
QueryGet(r) == IF r.url = "value" THEN "https://example.com" ELSE ""

\* handleOpenURL: the status written and whether browser.OpenURL was
\* called; openOk is the result of browser.OpenURL
handleOpenURL(r, openOk) ==
  IF ~MethodAllowed(r) THEN [status |-> 405, called |-> FALSE]
  ELSE IF QueryGet(r) = "" THEN [status |-> 400, called |-> FALSE]
  ELSE IF ~openOk THEN [status |-> 500, called |-> TRUE]
  ELSE [status |-> 200, called |-> TRUE]

\* the server handles the request r; ok is the result of the OS call
HandleRequest(r, ok) ==
  /\ web.servePc = "serving"
  /\ ~web.inShutdown
  /\ Len(web.log) < MaxRequests
  /\ LET res == IF web.kind = "notification"
                  THEN handleNotification(r, ok)
                  ELSE handleOpenURL(r, ok)
     IN  /\ res.called \/ ok
         /\ web' = [web EXCEPT !.log =
                      Append(@, [req |-> r, status |-> res.status,
                                 called |-> res.called, ok |-> ok])]
  /\ UNCHANGED webOthers

\* serve(): server.Serve(listener) starts accepting; when Shutdown was
\* called before, Serve returns ErrServerClosed at once and the deferred
\* listener.Close() and wg.Done() run
ServeStart ==
  /\ web.servePc = "start"
  /\ web' = IF web.inShutdown
              THEN [web EXCEPT !.servePc = "done", !.listener = "closed"]
              ELSE [web EXCEPT !.servePc = "serving"]
  /\ UNCHANGED webOthers

\* Serve returns after Shutdown; the deferred listener.Close() and
\* wg.Done() run
ServeReturn ==
  /\ web.servePc = "serving"
  /\ web.inShutdown
  /\ web' = [web EXCEPT !.servePc = "done", !.listener = "closed"]
  /\ UNCHANGED webOthers

\* Stop(): server.Shutdown closes the listeners Serve has registered, then
\* cancel() is called
StopShutdown ==
  /\ web.stopPc = "none"
  /\ web' = [web EXCEPT !.inShutdown = TRUE,
                        !.listener = IF web.servePc = "serving"
                                       THEN "closed" ELSE @,
                        !.stopPc = "wait"]
  /\ UNCHANGED webOthers

\* wg.Wait() returns when serve() has called wg.Done()
ServeFinishedAlways == TRUE

ServeFinished == web.servePc = "done"

\* Stop(): wg.Wait() returns, and then Stop
StopWait ==
  /\ web.stopPc = "wait"
  /\ ServeFinished
  /\ web' = [web EXCEPT !.stopPc = "returned"]
  /\ UNCHANGED webOthers

\* net.Dial to the service's port: it succeeds while the listener is open
DialService ==
  /\ web' = [web EXCEPT !.dials =
               @ \cup {[afterStop |-> web.stopPc = "returned",
                        ok |-> web.listener = "open"]}]
  /\ UNCHANGED webOthers

WebNext ==
  \/ \E r \in NotifyRequests \cup OpenRequests, ok \in BOOLEAN :
        /\ r \in (IF web.kind = "notification"
                    THEN NotifyRequests ELSE OpenRequests)
        /\ HandleRequest(r, ok)
  \/ ServeStart
  \/ ServeReturn
  \/ StopShutdown
  \/ StopWait
  \/ DialService

WebSpec == WebInit /\ [][WebNext]_vars


(* ------------------ the remote port monitor script (ShSpec) ------------- *)

\* everything but the port monitor script
shOthers == << monitorAll, feedVars, argsVars, authVars, web, srv, orch,
              cfg, tcp, sel >>

\* the pieces of a Local Address:Port field: a colon, a run of decimal
\* digits with its value, or a run of other characters
Colon == [kind |-> "colon", n |-> 0]

Word == [kind |-> "word", n |-> 0]

Num(n) == [kind |-> "num", n |-> n]

\* Lines of ss -tulpn that pass grep LISTEN, by their first and fifth
\* fields: 0.0.0.0:8080, [::]:1024, 127.0.0.1:9222, 127.0.0.1:1023,
\* 0.0.0.0:22 and *:* for tcp, 0.0.0.0:8080 for udp, and a field that
\* ends with a colon
SsLines ==
  { [protocol |-> "tcp", local |-> << Word, Colon, Num(8080) >>],
    [protocol |-> "tcp", local |-> << Word, Colon, Colon, Word, Colon, Num(1024) >>],
    [protocol |-> "tcp", local |-> << Word, Colon, Num(9222) >>],
    [protocol |-> "tcp", local |-> << Word, Colon, Num(1023) >>],
    [protocol |-> "tcp", local |-> << Word, Colon, Num(22) >>],
    [protocol |-> "tcp", local |-> << Word, Colon, Word >>],
    [protocol |-> "udp", local |-> << Word, Colon, Num(8080) >>],
    [protocol |-> "tcp", local |-> << Num(8080), Colon >>] }

\* the script has sent its starting message and enters the main loop
ShInit ==
  /\ MonitorInit
  /\ FeedIdle /\ ArgsIdle /\ AuthIdle
  /\ WebIdle /\ SrvIdle /\ OrchIdle /\ RestIdle
  /\ sh = [running |-> TRUE, bound_ports |-> {}, out |-> {}, seen |-> {}]

\* port="${local_address_port##*:}": what follows the last colon, or the
\* whole field when it holds no colon
AfterLastColon(local) ==
  LET colons == { i \in 1..Len(local) : local[i].kind = "colon" }
  IN  IF colons = {}
        THEN local
        ELSE LET last == CHOOSE i \in colons : \A j \in colons : j <= i
             IN  SubSeq(local, last + 1, Len(local))

\* [[ "$port" =~ ^[0-9]+$ ]]
IsDecimal(port) == Len(port) = 1 /\ port[1].kind = "num"

\* [[ "$port" =~ ^[0-9]+$ ]] && [ "$port" -gt 1023 ]
PortAcceptedAnyNumber(port) == IsDecimal(port)

PortAccepted(port) == IsDecimal(port) /\ port[1].n > 1023

\* key="${protocol}:${port}"
KeyOf(protocol, port) == [protocol |-> protocol, port |-> port]

\* send_message "port" action port protocol, for the key of bound_ports
PortEvent(action, key) ==
  [type |-> "port", action |-> action, port |-> key.port,
   protocol |-> key.protocol]

\* current_ports_map after the inner loop over the lines ss printed
CurrentPortsMap(lines) ==
  { KeyOf(l.protocol, AfterLastColon(l.local)) :
      l \in { m \in lines : PortAccepted(AfterLastColon(m.local)) } }

\* [[ -z "${bound_ports[$key]}" ]]: the key is not tracked yet
IsNewKeyAlways(bound, key) == TRUE

IsNewKey(bound, key) == key \notin bound

\* the keys recorded and announced as bound by the inner loop
NewKeys(bound, lines) ==
  { k \in CurrentPortsMap(lines) : IsNewKey(bound, k) }

\* the keys of bound_ports the scan did not find: announced as unbound and
\* unset
GoneKeys(bound, lines) ==
  (bound \cup NewKeys(bound, lines)) \ CurrentPortsMap(lines)

\* one round of the main loop on the lines ss printed: a bound event for
\* every accepted key that is new, then an unbound event for every key of
\* bound_ports that the scan did not find
ScanPorts(lines) ==
  /\ sh.running
  /\ LET new  == NewKeys(sh.bound_ports, lines)
         gone == GoneKeys(sh.bound_ports, lines)
     IN  sh' = [sh EXCEPT
                  !.bound_ports = (@ \cup new) \ gone,
                  !.out = @ \cup { PortEvent("bound", k) : k \in new }
                            \cup { PortEvent("unbound", k) : k \in gone },
                  !.seen = @ \cup lines]
  /\ UNCHANGED shOthers

\* SIGINT or SIGTERM: cleanup sends a log message and exits
ShSignal ==
  /\ sh.running
  /\ sh' = [sh EXCEPT !.running = FALSE]
  /\ UNCHANGED shOthers

ShNext ==
  \/ \E lines \in SUBSET SsLines : ScanPorts(lines)
  \/ ShSignal

ShSpec == ShInit /\ [][ShNext]_vars


(* ------------- the script and the reader together (PipeSpec) ------------ *)

\* events the script writes in PipeSpec
MaxEvents == 4

\* the lines of ss in PipeSpec: 0.0.0.0:8080 for tcp and for udp, the
\* registry port 127.0.0.1:1234 and 0.0.0.0:22
PipeSsLines ==
  { [protocol |-> "tcp", local |-> << Word, Colon, Num(8080) >>],
    [protocol |-> "udp", local |-> << Word, Colon, Num(8080) >>],
    [protocol |-> "tcp", local |-> << Word, Colon, Num(1234) >>],
    [protocol |-> "tcp", local |-> << Word, Colon, Num(22) >>] }

\* the orders in which the elements of a set can be written
RECURSIVE OrdersOf(_)
OrdersOf(S) ==
  IF S = {} THEN { << >> }
  ELSE UNION { { << x >> \o t : t \in OrdersOf(S \ {x}) } : x \in S }

\* jq -n -c ... '{type, action, port, protocol, timestamp}': the line
\* send_message writes, with the port as a JSON number (--argjson)
EventLine(e) ==
  [kind |-> "port", action |-> e.action, field |-> "int",
   port |-> e.port[1].n, protocol |-> e.protocol, long |-> FALSE]

\* the script is in its main loop and the reader reads its output
PipeInit ==
  /\ ReaderStarted
  /\ FeedIdle /\ ArgsIdle /\ AuthIdle
  /\ WebIdle /\ SrvIdle /\ OrchIdle /\ RestIdle
  /\ sh = [running |-> TRUE, bound_ports |-> {}, scan |-> {}]

\* one round of the main loop: the bound events in the order of the lines,
\* then the unbound events in the order of the keys of bound_ports, are
\* written to the stream the reader reads
PipeScan(lines) ==
  /\ sh.running
  /\ LET new  == NewKeys(sh.bound_ports, lines)
         gone == GoneKeys(sh.bound_ports, lines)
     IN  /\ Len(stream) + Cardinality(new) + Cardinality(gone) <= MaxEvents
         /\ sh' = [sh EXCEPT !.bound_ports = (@ \cup new) \ gone,
                             !.scan = lines]
         /\ \E bs \in OrdersOf(new) : \E us \in OrdersOf(gone) :
              stream' = stream
                \o [i \in 1..Len(bs) |-> EventLine(PortEvent("bound", bs[i]))]
                \o [i \in 1..Len(us) |-> EventLine(PortEvent("unbound", us[i]))]
  /\ UNCHANGED << monitorAll, scanned, current, stoppedAt, handledLog,
                  argsVars, authVars, web, srv, orch, cfg, tcp, sel >>

PipeNext ==
  \/ \E lines \in SUBSET PipeSsLines : PipeScan(lines)
  \/ ShSignal
  \/ FeedScan
  \/ FeedBody
  \/ \E h \in 1..MaxSpawns : ProcStart(h)

PipeSpec == PipeInit /\ [][PipeNext]_vars


(* --------------------- the configuration (CfgSpec) ---------------------- *)

\* what CfgSpec leaves alone
cfgOthers == << monitorAll, feedVars, argsVars, authVars, web, srv, orch, sh,
               tcp, sel >>

\* strings.TrimSpace on a text given as a sequence of characters
RECURSIVE TrimLeft(_)
TrimLeft(s) ==
  IF s # << >> /\ s[1] = Space THEN TrimLeft(Tail(s)) ELSE s

RECURSIVE TrimRight(_)
TrimRight(s) ==
  IF s # << >> /\ s[Len(s)] = Space
    THEN TrimRight(SubSeq(s, 1, Len(s) - 1))
    ELSE s

TrimSpace(s) == TrimRight(TrimLeft(s))

\* the keys a loaded configuration file may hold, the logins and the
\* subscriptions the operations are called with
CfgKeys == { << "a" >>, << Space, "a" >>, << "b" >> }

CfgLogins == CfgKeys \cup { << >>, << Space >>, << "a", Space >> }

CfgSubs == { << >>, << Space >>, << "s" >>, << Space, "t", Space >> }

\* AccountConfig: Azure is nil, or points to an AzureConfig
NoAzure == [azureNil |-> TRUE, sub |-> << >>]

AccountValues ==
  {NoAzure} \cup [azureNil : {FALSE}, sub : CfgSubs \cup {<< "t" >>}]

\* a nil AppConfig, or the map json.Unmarshal has filled
CfgInit ==
  /\ MonitorInit
  /\ FeedIdle /\ ArgsIdle /\ AuthIdle
  /\ WebIdle /\ SrvIdle /\ OrchIdle /\ ShIdle
  /\ tcp = << >> /\ sel = << >>
  /\ \E isNil \in BOOLEAN :
     \E keys \in SUBSET CfgKeys :
     \E m \in [keys -> AccountValues] :
       /\ isNil => keys = {}
       /\ cfg = [isNil |-> isNil, m |-> m, called |-> FALSE,
                 login |-> << >>, sub |-> << >>, before |-> m]

\* AppConfig.AzureSubscriptionForLogin
AzureSubscriptionForLogin(c, login) ==
  IF c.isNil THEN [sub |-> << >>, ok |-> FALSE]
  ELSE IF login \notin DOMAIN c.m \/ c.m[login].azureNil
    THEN [sub |-> << >>, ok |-> FALSE]
  ELSE IF TrimSpace(c.m[login].sub) = << >>
    THEN [sub |-> << >>, ok |-> FALSE]
  ELSE [sub |-> TrimSpace(c.m[login].sub), ok |-> TRUE]

\* c[login] = acct
MapAssign(m, key, acct) ==
  [k \in DOMAIN m \cup {key} |-> IF k = key THEN acct ELSE m[k]]

\* AppConfig.SetAzureSubscriptionForLogin: the map after the call
SetAzureSubscriptionForLogin(c, login, subscription) ==
  IF c.isNil THEN c.m
  ELSE LET key == TrimSpace(login)
           sub == TrimSpace(subscription)
       IN  IF key = << >> THEN c.m
           ELSE IF sub = << >>
             THEN IF key \in DOMAIN c.m
                    THEN MapAssign(c.m, key,
                           IF c.m[key].azureNil THEN c.m[key]
                           ELSE [c.m[key] EXCEPT !.sub = << >>])
                    ELSE c.m
           ELSE MapAssign(c.m, key, [azureNil |-> FALSE, sub |-> sub])

\* a call of SetAzureSubscriptionForLogin
CfgSet(login, subscription) ==
  /\ cfg' = [cfg EXCEPT
               !.m = SetAzureSubscriptionForLogin(cfg, login, subscription),
               !.before = cfg.m, !.called = TRUE,
               !.login = login, !.sub = subscription]
  /\ UNCHANGED cfgOthers

CfgNext == \E login \in CfgLogins : \E sub \in CfgSubs : CfgSet(login, sub)

CfgSpec == CfgInit /\ [][CfgNext]_vars


(* ---------------- the raw-TCP browser service (TcpSpec) ----------------- *)

\* connections clients open to the service
MaxConns == 3

\* what TcpSpec leaves alone
tcpOthers == << monitorAll, feedVars, argsVars, authVars, web, srv, orch, sh,
               cfg, sel >>

\* NewBrowserService has returned: the listener is open, acceptLoop has
\* made its two unbuffered channels and started the accept goroutine.
\*   loop:    select | returned            (acceptLoop)
\*   inner:   accept | sendConn | sendErr | returned (the accept goroutine)
\*   stop:    none | waiting | returned     (a call of Stop)
\*   backlog: connections dialled and not yet accepted
\*   dials:   connections dialled so far
\*   reading: handleConnection goroutines blocked in scanner.Scan()
TcpInit ==
  /\ MonitorInit
  /\ FeedIdle /\ ArgsIdle /\ AuthIdle
  /\ WebIdle /\ SrvIdle /\ OrchIdle /\ ShIdle
  /\ cfg = << >> /\ sel = << >>
  /\ tcp = [ctxDone |-> FALSE, listener |-> "open", loop |-> "select",
            inner |-> "accept", stop |-> "none", backlog |-> 0,
            dials |-> 0, reading |-> 0, wgDone |-> FALSE]

\* a client connects to the listening port
TcpDial ==
  /\ tcp.listener = "open"
  /\ tcp.dials < MaxConns
  /\ tcp' = [tcp EXCEPT !.backlog = @ + 1, !.dials = @ + 1]
  /\ UNCHANGED tcpOthers

\* bs.listener.Accept() fails on the open listener (the process is out of
\* file descriptors, for instance)
InnerAcceptFail ==
  /\ tcp.inner = "accept"
  /\ tcp.listener = "open"
  /\ tcp' = [tcp EXCEPT !.inner = "sendErr"]
  /\ UNCHANGED tcpOthers

\* bs.listener.Accept() returns a connection of the backlog; on a closed
\* listener it returns an error
InnerAccept ==
  /\ tcp.inner = "accept"
  /\ \E ok \in BOOLEAN :
       /\ ok => (tcp.listener = "open" /\ tcp.backlog > 0)
       /\ ~ok => tcp.listener = "closed"
       /\ tcp' = IF ok
                   THEN [tcp EXCEPT !.inner = "sendConn", !.backlog = @ - 1]
                   ELSE [tcp EXCEPT !.inner = "sendErr"]
  /\ UNCHANGED tcpOthers

\* a send on an unbuffered channel completes only with a receiver in the
\* select of acceptLoop
ReceiverReadyAlways == TRUE

ReceiverReady == tcp.loop = "select"

\* select, case conn := <-connChan: go bs.handleConnection(conn); the
\* accept goroutine goes back to Accept
LoopRecvConn ==
  /\ ReceiverReady
  /\ tcp.inner = "sendConn"
  /\ tcp' = [tcp EXCEPT !.inner = "accept", !.reading = @ + 1]
  /\ UNCHANGED tcpOthers

\* acceptLoop returns: the deferred listener.Close() and wg.Done() run
LoopReturn(t) ==
  [t EXCEPT !.loop = "returned", !.listener = "closed", !.wgDone = TRUE,
            !.backlog = 0]

\* select, case err := <-errChan: return; the accept goroutine has sent
\* and returns
LoopRecvErr ==
  /\ ReceiverReady
  /\ tcp.inner = "sendErr"
  /\ tcp' = LoopReturn([tcp EXCEPT !.inner = "returned"])
  /\ UNCHANGED tcpOthers

\* select, case <-bs.ctx.Done(): return
LoopCtxDone ==
  /\ tcp.loop = "select"
  /\ tcp.ctxDone
  /\ tcp' = LoopReturn(tcp)
  /\ UNCHANGED tcpOthers

\* handleConnection: scanner.Scan() returns (a line, or the client closed),
\* the message is handled and the deferred conn.Close() runs
TcpHandlerDone ==
  /\ tcp.reading > 0
  /\ tcp' = [tcp EXCEPT !.reading = @ - 1]
  /\ UNCHANGED tcpOthers

\* Stop(): bs.cancel(), then bs.wg.Wait()
TcpStop ==
  /\ tcp.stop = "none"
  /\ tcp' = [tcp EXCEPT !.ctxDone = TRUE, !.stop = "waiting"]
  /\ UNCHANGED tcpOthers

\* bs.wg.Wait() returns and Stop() returns
TcpStopReturn ==
  /\ tcp.stop = "waiting"
  /\ tcp.wgDone
  /\ tcp' = [tcp EXCEPT !.stop = "returned"]
  /\ UNCHANGED tcpOthers

TcpNext ==
  \/ TcpDial
  \/ InnerAccept
  \/ InnerAcceptFail
  \/ LoopRecvConn
  \/ LoopRecvErr
  \/ LoopCtxDone
  \/ TcpHandlerDone
  \/ TcpStop
  \/ TcpStopReturn

TcpSpec == TcpInit /\ [][TcpNext]_vars

\* every goroutine takes the steps it can take, and every client whose
\* connection is handled sends its line or closes
TcpLiveSpec ==
  /\ TcpSpec
  /\ WF_vars(InnerAccept)
  /\ WF_vars(LoopRecvConn)
  /\ WF_vars(LoopRecvErr)
  /\ WF_vars(LoopCtxDone)
  /\ WF_vars(TcpHandlerDone)
  /\ WF_vars(TcpStopReturn)


(* ---------------- the codespace selection model (SelSpec) --------------- *)

\* codespaces offered for selection
MaxChoices == 3

\* what SelSpec leaves alone
selOthers == << monitorAll, feedVars, argsVars, authVars, web, srv, orch, sh,
               cfg, tcp >>

\* msg.String() of the key messages: the keys Update knows and another key
Keys == { "ctrl+c", "q", "up", "k", "down", "j", "enter", " ", "x" }

\* showSelection has built selectionModel{choices: options} and started the
\* program.
\*   phase:  running  - the program handles messages
\*           quitting - Update has returned tea.Quit; messages that were
\*                      queued before the quit message are still handled
\*           returned - showSelection has returned
\*   key:    the key of the last message handled
\*   result: of showSelection: none, index or error, with its value
SelInit ==
  /\ MonitorInit
  /\ FeedIdle /\ ArgsIdle /\ AuthIdle
  /\ WebIdle /\ SrvIdle /\ OrchIdle /\ ShIdle
  /\ cfg = << >> /\ tcp = << >>
  /\ \E n \in 0..MaxChoices :
       sel = [choices |-> n, cursor |-> 0, selected |-> 0, done |-> FALSE,
              phase |-> "running", key |-> "none", result |-> "none",
              value |-> 0]

\* case "down", "j": if m.cursor < len(m.choices)-1
CanMoveDownAlways(m) == TRUE

CanMoveDown(m) == m.cursor < m.choices - 1

\* selectionModel.Update on a key message: the model it returns
Update(m, key) ==
  CASE key \in {"ctrl+c", "q"} -> [m EXCEPT !.phase = "quitting"]
    [] key \in {"up", "k"} ->
         IF m.cursor > 0 THEN [m EXCEPT !.cursor = @ - 1] ELSE m
    [] key \in {"down", "j"} ->
         IF CanMoveDown(m) THEN [m EXCEPT !.cursor = @ + 1] ELSE m
    [] key \in {"enter", " "} ->
         [m EXCEPT !.selected = m.cursor, !.done = TRUE,
                   !.phase = "quitting"]
    [] OTHER -> m

\* the program hands a key message to Update
KeyMsg(key) ==
  /\ sel.phase \in {"running", "quitting"}
  /\ sel' = [Update(sel, key) EXCEPT !.key = key]
  /\ UNCHANGED selOthers

\* p.Run() returns the final model after the quit message, and
\* showSelection returns the selected index, or the error when nothing was
\* selected
RunReturns ==
  /\ sel.phase = "quitting"
  /\ sel' = IF ~sel.done
              THEN [sel EXCEPT !.phase = "returned", !.result = "error",
                               !.value = -1]
              ELSE [sel EXCEPT !.phase = "returned", !.result = "index",
                               !.value = sel.selected]
  /\ UNCHANGED selOthers

\* p.Run() returns an error: showSelection returns -1 and the error
RunFails ==
  /\ sel.phase = "running"
  /\ sel' = [sel EXCEPT !.phase = "returned", !.result = "error",
                        !.value = -1]
  /\ UNCHANGED selOthers

SelNext ==
  \/ \E key \in Keys : KeyMsg(key)
  \/ RunReturns
  \/ RunFails

SelSpec == SelInit /\ [][SelNext]_vars


(* ------------------------------ properties ------------------------------ *)

\* forwarding commands created for port p whose handle no unbound has dropped
LiveCmds(p) == { h \in Handles : cmds[h].port = p /\ h \notin retired }

\* a bound event for port p is read and handled
BoundEvent(p) ==
  \E l \in PortLines :
     l.action = "bound" /\ l.field = "int" /\ l.port = p /\ ReadLine(l)

\* lines that are not valid JSON, or valid JSON without a type field, or with
\* a type other than port and log
MalformedLines ==
  { l \in Lines : l.kind \in {"notjson", "badshape", "notype", "othertype"} }

\* C1: Idempotent bind. While the last event handled for a port outside the
\* registry is a bound event (one bound, or several in a row with no unbound
\* in between), exactly one forwarding command has been spawned for the port
\* since the last unbound, and exactly one command of the port is held.
C1_IdempotentBind ==
  \A p \in PortValues :
     (lastAct[p] = "bound" /\ ~IsReverseForwardedPort(p)) =>
        /\ spawnsSince[p] = 1
        /\ Cardinality(LiveCmds(p)) = 1
        /\ Lookup(p).active

\* the last event handled was a second consecutive bound for port 8080
C1_Witness ==
  /\ lastDup = {8080}
  /\ lastAct[8080] = "bound"
  /\ spawnsSince[8080] = 1

\* C2: Idempotent unbind. While the last event handled for a port is an
\* unbound event (one, or several in a row with no bound in between), at most
\* one Kill call was made for the port since the last bound, and the entry
\* exists, is inactive and holds no handle.
C2_IdempotentUnbind ==
  \A p \in PortValues :
     lastAct[p] = "unbound" =>
        /\ killsSince[p] <= 1
        /\ p \in DOMAIN portForwards
        /\ portForwards[p] = [active |-> FALSE, cmd |-> NilCmd]

\* the last event handled was a second consecutive unbound for port 8080,
\* the first of which killed the running forwarding process
C2_Witness ==
  /\ lastDup = {8080}
  /\ lastAct[8080] = "unbound"
  /\ killsSince[8080] = 1
  /\ \E h \in retired : cmds[h].port = 8080 /\ cmds[h].st = "killed"

\* C3: Exclusion. For a port of the registry with Enabled set, no forwarding
\* command is ever created and the port never has an active entry.
C3_Exclusion ==
  \A p \in PortValues :
     IsReverseForwardedPort(p) =>
        /\ \A h \in Handles : cmds[h].port # p
        /\ ~Lookup(p).active

\* a bound event for the registry port 1234 was handled twice in a row while
\* forwarding commands exist for other ports
C3_Witness ==
  /\ lastAct[1234] = "bound"
  /\ lastDup = {1234}
  /\ Len(cmds) > 0

\* C4: Rebind. No entry ever holds a handle that an unbound event dropped,
\* and the command of an active entry for port p forwards p to p; so the
\* bound after an unbound stores a new command.
C4_RebindFresh ==
  \A p \in DOMAIN portForwards :
     LET info == portForwards[p] IN
     /\ info.cmd \notin retired
     /\ info.active =>
          /\ info.cmd \in Handles
          /\ cmds[info.cmd].port = p
          /\ cmds[info.cmd].local = p
          /\ cmds[info.cmd].remote = p

\* bound(8080) spawned a process, unbound(8080) killed it, and bound(8080)
\* stored another command
C4_Witness ==
  /\ lastAct[8080] = "bound"
  /\ Lookup(8080).active
  /\ \E h \in retired :
       /\ cmds[h].port = 8080
       /\ cmds[h].st = "killed"
       /\ h # Lookup(8080).cmd

\* C5 as claimed: after cleanupPortForwards has run, every entry (here: of a
\* port above zero) is inactive with a cleared handle.
C5_ShutdownClearsEntries ==
  cleanupRuns >= 1 =>
     \A p \in DOMAIN portForwards :
        p > 0 => portForwards[p] = [active |-> FALSE, cmd |-> NilCmd]

\* C5: Shutdown completeness, as the code has it. The run of
\* cleanupPortForwards leaves the map as it was, and no process that an
\* active entry had started before the run is running after it.
C5_ShutdownKillsActive ==
  [][ cleanupRuns' = cleanupRuns + 1 =>
        /\ portForwards' = portForwards
        /\ \A p \in DOMAIN portForwards :
             LET info == portForwards[p] IN
             (info.active /\ info.cmd # NilCmd /\ ProcessSet(info.cmd))
                => cmds'[info.cmd].st # "running" ]_vars

\* cleanupPortForwards has run and killed the process of an entry, which is
\* still active and still holds its handle
C5_Witness ==
  /\ cleanupRuns = 1
  /\ \E p \in DOMAIN portForwards :
       /\ portForwards[p].active
       /\ portForwards[p].cmd # NilCmd
       /\ cmds[portForwards[p].cmd].st = "killed"

\* C6: once unbound(p) was handled, no forwarding process started for an
\* earlier bound(p) is running (stated for the ports above zero).
C6_NoProcessOutlivesUnbound ==
  \A h \in Handles :
     (h \in retired /\ cmds[h].port > 0) => cmds[h].st # "running"

\* C7: when the command of port p's entry failed to start or exited, the
\* next bound event for p starts a new forwarding command (stated for the
\* ports above zero outside the registry).
C7_RespawnAfterFailure ==
  [][ \A p \in PortValues :
        (   ~monitorCtxDone
         /\ p > 0
         /\ ~IsReverseForwardedPort(p)
         /\ Lookup(p).active
         /\ cmds[Lookup(p).cmd].st \in {"failed", "exited"}
         /\ BoundEvent(p))
        => Len(cmds') = Len(cmds) + 1 ]_vars

\* C8: Malformed-line tolerance. Reading a malformed line while the context
\* is not cancelled changes neither the map nor any process and leaves the
\* reader in its loop.
C8_MalformedLineTolerated ==
  [][ (~monitorCtxDone /\ \E l \in MalformedLines : ReadLine(l)) =>
        /\ portForwards' = portForwards
        /\ cmds' = cmds
        /\ readerPc' = "reading" ]_vars

\* C9: a port event with a port number of zero or less creates no entry and
\* spawns no forwarding command.
C9_InvalidPortDiscarded ==
  \A p \in PortValues :
     p <= 0 =>
        /\ p \notin DOMAIN portForwards
        /\ \A h \in Handles : cmds[h].port # p

\* C10: the kill loop runs at most once, and exactly once by the time a
\* runAndProcessOutput that started the monitor command has returned,
\* however often Stop() is called.
C10_CleanupOnce ==
  /\ cleanupRuns <= 1
  /\ (monPc = "returned" /\ readerPc # "idle") => cleanupRuns = 1

\* the monitor has returned after Stop() was called more than once, and the
\* kill loop has run once
C10_Witness ==
  /\ monPc = "returned"
  /\ cleanupRuns = 1
  /\ stopCalls = "many"
  /\ Len(cmds) > 0

\* forwarding processes of port p that are running
RunningFor(p) == { h \in Handles : cmds[h].port = p /\ cmds[h].st = "running" }

\* C11: Forward entries are never deleted. No step that touches the forward
\* map or handles an event removes a key of the map, so the key set only
\* grows; after such a step a port whose last handled event is unbound has
\* the entry (inactive, no handle); and the step that handles an unbound
\* event after another event of the port leaves every other entry as it was.
C11_EntriesNeverDeleted ==
  [][ (portForwards' # portForwards \/ lastAct' # lastAct) =>
        /\ DOMAIN portForwards \subseteq DOMAIN portForwards'
        /\ \A p \in PortValues :
             lastAct'[p] = "unbound" =>
                /\ p \in DOMAIN portForwards'
                /\ portForwards'[p] = [active |-> FALSE, cmd |-> NilCmd]
        /\ \A p \in PortValues :
             (lastAct[p] # "unbound" /\ lastAct'[p] = "unbound") =>
                \A q \in DOMAIN portForwards \ {p} :
                   portForwards'[q] = portForwards[q] ]_vars

\* the entry of port 8080 was created by a bound event and an unbound event
\* made it inactive; the entry of port 1234 was created by an unbound event
C11_Witness ==
  /\ 8080 \in DOMAIN portForwards
  /\ portForwards[8080] = [active |-> FALSE, cmd |-> NilCmd]
  /\ \E h \in retired : cmds[h].port = 8080
  /\ 1234 \in DOMAIN portForwards
  /\ lastAct[1234] = "unbound"

\* C12: entries are keyed by the port number only, and at most one
\* forwarding process of a port number (stated for the ports above zero) is
\* running at any time.
C12_OneProcessPerPort ==
  \A p \in PortValues : p > 0 => Cardinality(RunningFor(p)) <= 1

\* C14: the reader checks cancellation on every line. When the loop body
\* runs on a line while the monitor context is cancelled, the line is not
\* handed to handlePortMessage (map, commands and the record of handled
\* events stay as they were) and the reader stops at that line.
C14_CancelStopsReader ==
  [][ (monitorCtxDone /\ current # 0 /\ current' = 0) =>
        /\ readerPc' = "done"
        /\ stoppedAt' = current
        /\ handledLog' = handledLog
        /\ portForwards' = portForwards
        /\ cmds' = cmds
        /\ lastAct' = lastAct ]_vars

\* the reader has stopped at line 2, a bound event for port 8080 within the
\* scanner's limit, after handling line 1; the port has no active entry
C14_Witness ==
  /\ stoppedAt = 2
  /\ handledLog = << 1 >>
  /\ monitorCtxDone
  /\ readerPc = "done"
  /\ Dispatches(stream[2])
  /\ stream[2].action = "bound"
  /\ stream[2].port = 8080
  /\ ~Lookup(8080).active

\* C15: the kill loop starts only after the reader goroutine has finished.
\* Whenever runAndProcessOutput is in its deferred calls or has returned
\* after starting the reader, the reader has returned; and the step that
\* runs the kill loop is taken with the reader finished.
C15_KillLoopAfterReader ==
  /\ (monPc \in {"defer", "returned"} /\ readerPc # "idle") => readerPc = "done"
  /\ cleanupRuns >= 1 => readerPc = "done"

\* on the cancellation path the kill loop is about to run, with the reader
\* finished and an active entry whose process is running
C15_Witness ==
  /\ monPc = "defer"
  /\ DeferredCall(deferIdx) = "cleanupPortForwards"
  /\ monitorCtxDone
  /\ readerPc = "done"
  /\ \E p \in DOMAIN portForwards :
       /\ portForwards[p].active
       /\ cmds[portForwards[p].cmd].st = "running"

\* lines among the first n of the stream that carry a port event, in order
RECURSIVE EventsUpTo(_)
EventsUpTo(n) ==
  IF n = 0 THEN << >>
  ELSE IF Dispatches(stream[n]) THEN Append(EventsUpTo(n - 1), n)
  ELSE EventsUpTo(n - 1)

\* lines whose loop body has run to its end without stopping the reader
BodiesDone ==
  IF stoppedAt # 0 THEN stoppedAt - 1
  ELSE IF current = 0 THEN scanned ELSE scanned - 1

\* the action of the last bound or unbound event for port p among the lines
\* of the index sequence E
LastActionIn(E, p) ==
  LET idx == { k \in 1..Len(E) :
                 /\ PortMessage(stream[E[k]]).Port = p
                 /\ PortMessage(stream[E[k]]).Action \in {"bound", "unbound"} }
  IN IF idx = {} THEN "none"
     ELSE PortMessage(stream[E[CHOOSE k \in idx : \A j \in idx : j <= k]]).Action

\* C13: port events are handled in the order of their lines. While line i+1
\* is in the loop body, the events of the lines up to i, and only these,
\* have been handed to handlePortMessage, in stream order, and the forward
\* manager's state is the one after the last of them: for every port the
\* last handled action is the last action on those lines and the entry has
\* been updated for it; no line is scanned while another is undecided.
C13_InOrderHandling ==
  LET E == EventsUpTo(BodiesDone) IN
  /\ handledLog = E
  /\ current # 0 => current = BodiesDone + 1
  /\ \A p \in PortValues :
       /\ lastAct[p] = LastActionIn(E, p)
       /\ lastAct[p] = "unbound" => ~Lookup(p).active
       /\ (lastAct[p] = "bound" /\ ~IsReverseForwardedPort(p)) => Lookup(p).active

\* the third line of the stream is in the loop body; the bound event of
\* line 1 and the unbound event of line 2 (which killed the process of
\* line 1) have been handled
C13_Witness ==
  /\ current = 3
  /\ handledLog = << 1, 2 >>
  /\ lastAct[8080] = "unbound"
  /\ \E h \in Handles : cmds[h].st = "killed"
  /\ stream[3].action = "bound"

\* indices of the registry entries that are enabled and are AlwaysForward
\* or had their port bound when the registry was probed
ActiveAtProbe ==
  { i \in 1..Len(registry) :
       /\ registry[i].Enabled
       /\ registry[i].AlwaysForward \/ registry[i].Port \in probed }

\* the k-th smallest element of the set of indices I
Nth(I, k) == CHOOSE i \in I : Cardinality({ j \in I : j < i }) = k - 1

\* the text "<port>:localhost:<port>"
PortPairText(port) == ToString(port) \o ":localhost:" \o ToString(port)

\* the sequence a holds the adjacent pair "-R", text
HasPair(a, text) ==
  \E k \in 1..(Len(a) - 1) : a[k] = "-R" /\ a[k + 1] = text

\* C16: GetBoundReverseForwards returns, in registry order, exactly the
\* entries that are enabled and are AlwaysForward or whose port accepts a
\* connection at call time; no disabled entry is returned, and an entry
\* whose probe fails is left out while the call still returns its list.
C16_BoundReverseForwards ==
  lastCall = "GetBoundReverseForwards" =>
     /\ Len(boundForwards) = Cardinality(ActiveAtProbe)
     /\ \A k \in 1..Len(boundForwards) :
          boundForwards[k] = registry[Nth(ActiveAtProbe, k)]
     /\ \A k \in 1..Len(boundForwards) : boundForwards[k].Enabled

\* the call returned one entry of a registry of two: the first entry is
\* disabled and its port was bound, the second is AlwaysForward and its
\* port was not bound
C16_Witness ==
  /\ lastCall = "GetBoundReverseForwards"
  /\ Len(registry) = 2
  /\ ~registry[1].Enabled /\ registry[1].Port \in probed
  /\ registry[2].Enabled /\ registry[2].AlwaysForward
  /\ registry[2].Port \notin probed
  /\ boundForwards = << registry[2] >>

\* C17: BuildReverseForwardArgs returns 2n arguments for n forwards: for the
\* i-th forward "-R" at 2i-1 and "<port>:localhost:<port>" at 2i; nothing
\* for the empty list.
C17_ReverseForwardArgs ==
  lastCall = "BuildReverseForwardArgs" =>
     /\ Len(outArgs) = 2 * Len(callForwards)
     /\ \A i \in 1..Len(callForwards) :
          /\ outArgs[2 * i - 1] = "-R"
          /\ outArgs[2 * i] = PortPairText(callForwards[i].Port)

\* the call was made with two forwards of different ports
C17_Witness ==
  /\ lastCall = "BuildReverseForwardArgs"
  /\ Len(callForwards) = 2
  /\ callForwards[1].Port # callForwards[2].Port
  /\ Len(outArgs) = 4

\* C18: BuildSSHArgs(S, N) returns a list that starts with "--", holds the
\* adjacent pair "-R", "S:localhost:N", holds "-t" before the remaining
\* arguments, and ends with the remaining arguments in their order.
C18_SSHArgsShape ==
  lastCall = "BuildSSHArgs" =>
     LET n == Len(outArgs)
         r == Len(callSSH.RemainingArgs)
     IN /\ n >= r + 1
        /\ outArgs[1] = "--"
        /\ HasPair(outArgs, callSSH.socketPath \o ":localhost:"
                               \o ToString(callSSH.port))
        /\ \E k \in 1..(n - r) : outArgs[k] = "-t"
        /\ SubSeq(outArgs, n - r + 1, n) = callSSH.RemainingArgs

\* the call was made with two remaining arguments and a server port that
\* is also a registry port, while a reverse forward was bound
C18_Witness ==
  /\ lastCall = "BuildSSHArgs"
  /\ callSSH.RemainingArgs = << "echo", "hello" >>
  /\ callSSH.port = 1234
  /\ Len(boundForwards) > 0

\* C19: the list BuildSSHArgs returned holds the pair "-R",
\* "<port>:localhost:<port>" for every registry entry that was in the
\* active set when the call probed the registry, and nothing for the other
\* entries: between the socket forward and "-t" there is one pair per
\* active entry. Later changes of the local listeners do not change it.
C19_SSHArgsReverseForwards ==
  lastCall = "BuildSSHArgs" =>
     LET n == Cardinality(ActiveAtProbe) IN
     /\ \A i \in ActiveAtProbe : HasPair(outArgs, PortPairText(registry[i].Port))
     /\ Len(outArgs) = 4 + 2 * n + Len(callSSH.RemainingArgs)
     /\ \A k \in 1..n :
          /\ outArgs[2 + 2 * k] = "-R"
          /\ outArgs[3 + 2 * k] = PortPairText(registry[Nth(ActiveAtProbe, k)].Port)
     /\ outArgs[4 + 2 * n] = "-t"

\* after the call a service started listening on the port of an enabled
\* entry that was outside the active set; the list holds the pair of the
\* entry that was active and none for the other
C19_Witness ==
  /\ lastCall = "BuildSSHArgs"
  /\ Len(registry) = 2
  /\ ActiveAtProbe = {1}
  /\ registry[2].Enabled
  /\ registry[2].Port # registry[1].Port
  /\ registry[2].Port \in listening \ probed
  /\ Len(outArgs) = 6 + Len(callSSH.RemainingArgs)

\* the frame read as the k-th is a getAccessToken request: it decodes into
\* a TokenRequest whose type is getAccessToken
IsTokenRequest(k) ==
  UnmarshalOk(reqLog[k].frame) /\ reqLog[k].frame.type = "getAccessToken"

RECURSIVE JoinScopes(_)
JoinScopes(scopes) ==
  IF Len(scopes) = 1
    THEN scopes[1]
    ELSE scopes[1] \o << Space >> \o JoinScopes(Tail(scopes))

\* the entry of reqLog is that of a getAccessToken request
IsTokenEntry(e) == UnmarshalOk(e.frame) /\ e.frame.type = "getAccessToken"

\* C21: a getAccessToken request without a scopes field, or with an empty
\* scopes string, makes the broker call GetToken with the single default
\* scope; any other request makes it call GetToken with the parts of the
\* scopes string between the spaces: no part holds a space, and the parts
\* joined by single spaces are the scopes string again. GetToken is called
\* once per request, in the order of the requests.
C21_DefaultScope ==
  /\ \A k \in 1..Len(reqLog) :
       IsTokenRequest(k) =>
          LET f  == reqLog[k].frame
              sc == reqLog[k].scopes
          IN  IF f.scopes \in {"absent", "empty"}
                THEN sc = << DefaultScope >>
                ELSE /\ Len(sc) >= 1
                     /\ \A i \in 1..Len(sc) :
                          \A j \in 1..Len(sc[i]) : sc[i][j] # Space
                     /\ JoinScopes(sc) = f.text
  /\ LET reqs == SelectSeq(reqLog, IsTokenEntry)
     IN  /\ Len(tokenCalls) = Len(reqs)
         /\ \A i \in 1..Len(reqs) : tokenCalls[i] = reqs[i].scopes

\* one connection carried a request without scopes, a request with empty
\* scopes and a request for "a b", answered in this order
C21_Witness ==
  /\ Len(reqLog) = 3
  /\ IsTokenRequest(1) /\ reqLog[1].frame.scopes = "absent"
  /\ IsTokenRequest(2) /\ reqLog[2].frame.scopes = "empty"
  /\ IsTokenRequest(3) /\ reqLog[3].frame.text = << "a", Space, "b" >>
  /\ tokenCalls = << << DefaultScope >>, << DefaultScope >>,
                     << << "a" >>, << "b" >> >> >>

\* the entries of the request log of a service of the given kind
LogOf(kind) ==
  IF web.kind = kind THEN { web.log[i] : i \in 1..Len(web.log) } ELSE {}

\* C22: every request to /notify is answered with 405 when its method is
\* not POST, else with 400 when its body is not valid JSON or the title or
\* the message is empty, else with 500 when the OS notification failed and
\* with 200 when it succeeded; the OS notification is triggered for no
\* request that fails one of these validations.
C22_NotifyStatuses ==
  \A e \in LogOf("notification") :
     LET valid == /\ e.req.method = "POST"
                  /\ e.req.json = "value"
                  /\ e.req.title # ""
                  /\ e.req.message # ""
     IN  /\ e.status = IF e.req.method # "POST" THEN 405
                       ELSE IF ~valid THEN 400
                       ELSE IF ~e.ok THEN 500
                       ELSE 200
         /\ e.called => valid

\* C23: every request to /open is answered with 405 when its method is not
\* POST, else with 400 when the query holds no url parameter or an empty
\* one (a parameter whose value cannot be unescaped is no parameter), else
\* with 500 when opening the browser failed and with 200 when it
\* succeeded; the browser is opened exactly for the POST requests with a
\* non-empty url.
C23_OpenStatuses ==
  \A e \in LogOf("browser") :
     LET hasUrl == e.req.url = "value"
     IN  /\ e.status = IF e.req.method # "POST" THEN 405
                       ELSE IF ~hasUrl THEN 400
                       ELSE IF ~e.ok THEN 500
                       ELSE 200
         /\ e.called <=> (e.req.method = "POST" /\ hasUrl)

\* the browser service answered a POST with a url by 500 after a failed
\* attempt to open the browser, and then a GET by 405
C23_Witness ==
  /\ web.kind = "browser"
  /\ Len(web.log) = 2
  /\ web.log[1].req = [method |-> "POST", url |-> "value"]
  /\ web.log[1].status = 500 /\ web.log[1].called
  /\ web.log[2].req.method = "GET"
  /\ web.log[2].status = 405 /\ ~web.log[2].called

\* C24: when Stop() has returned, the listener of the service is closed,
\* the serving goroutine has finished, and every connection attempt made
\* since has failed.
C24_StoppedServiceRefuses ==
  web.stopPc = "returned" =>
     /\ web.listener = "closed"
     /\ web.servePc = "done"
     /\ \A d \in web.dials : d.afterStop => ~d.ok

\* a connection attempt succeeded before Stop() and one failed after Stop()
\* returned, Stop() having been called before Serve registered the listener
C24_Witness ==
  /\ web.stopPc = "returned"
  /\ web.log = << >>
  /\ [afterStop |-> FALSE, ok |-> TRUE] \in web.dials
  /\ [afterStop |-> TRUE, ok |-> FALSE] \in web.dials
  /\ [afterStop |-> FALSE, ok |-> FALSE] \notin web.dials

\* C30: every port event the script has emitted, bound or unbound, carries
\* as its port a run of decimal digits whose value is 1024 or more.
C30_NoLowPortEvents ==
  \A e \in sh.out :
     /\ e.action \in {"bound", "unbound"}
     /\ Len(e.port) = 1
     /\ e.port[1].kind = "num"
     /\ e.port[1].n >= 1024

\* every line was scanned, those of the ports 22 and 1023 and those without
\* a decimal port among them, and the script has emitted a bound and an
\* unbound event for port 1024
C30_Witness ==
  /\ sh.seen = SsLines
  /\ \E e \in sh.out : e.action = "bound" /\ e.port = << Num(1024) >>
  /\ \E e \in sh.out : e.action = "unbound" /\ e.port = << Num(1024) >>
  /\ sh.bound_ports = {}

HasBrowserForward(sshArgs) ==
  \E i \in 1..Len(sshArgs) - 1 :
    /\ sshArgs[i] = "-R"
    /\ sshArgs[i + 1] = ReverseForwardSpec([Port |-> BrowserPort])

\* main is past args.BuildSSHArgs
ArgsBuilt == orch.sshArgs # << >>

\* C25: when the browser service fails to start, main goes on: the
\* transport arguments it builds hold the credential socket forward and
\* no reverse forward or BROWSER export of the browser service, and a main
\* that has exited without an error of StartPortMonitor has started the
\* port monitor and launched the interactive transport
C25_BrowserFailureBestEffort ==
  (orch # << >> /\ "NewBrowserService" \in orch.errs) =>
    /\ orch.browser = "failed"
    /\ ArgsBuilt =>
         /\ ~HasBrowserForward(orch.sshArgs)
         /\ orch.sshArgs =
              << "--", "-R", SocketForwardSpec("/tmp/socket", 1234), "-t" >>
    /\ (orch.phase = "exited" /\ "StartPortMonitor" \notin orch.errs) =>
         /\ ArgsBuilt
         /\ stopCalls # "none"
         /\ orch.transport = "exited"

C25_Witness ==
  /\ orch # << >>
  /\ "NewBrowserService" \in orch.errs
  /\ orch.phase = "exited"
  /\ orch.transport = "exited"
  /\ orch.waitReturned

\* C26: when SetupServer or SelectCodespace has returned an error, the port
\* monitor is never started and gh.ExecInteractive is never called
C26_InitFailureAborts ==
  (orch # << >> /\ orch.errs \cap {"SetupServer", "SelectCodespace"} # {}) =>
    /\ monPc = "notStarted"
    /\ orch.transport = "none"

C26_Witness ==
  /\ orch # << >>
  /\ "SelectCodespace" \in orch.errs
  /\ orch.phase = "exited"
  /\ orch.listener = "closed"

\* C27: when StartPortMonitor has returned an error, a main that has exited
\* has launched the interactive transport
C27_MonitorFailureKeepsTransport ==
  (orch # << >> /\ "StartPortMonitor" \in orch.errs
                /\ orch.phase = "exited") =>
    orch.transport # "none"

\* the port monitor was started by main
MonitorStarted == monPc # "notStarted"

\* a forwarding process of an active forward is running
ActiveForwardRunning ==
  \E p \in DOMAIN portForwards :
    /\ portForwards[p].active
    /\ portForwards[p].cmd # NilCmd
    /\ cmds[portForwards[p].cmd].st = "running"

\* C28: a main that started the port monitor has not exited before Stop()
\* was called and Wait() returned, after a signal as after the end of the
\* transport; Wait() has returned only when the monitor goroutine has
\* returned: the reader is not reading, the kill loop has run if the
\* deferred calls were registered, and no forwarding process of an active
\* forward is left running
C28_DrainingOrder ==
  orch # << >> =>
    /\ (orch.phase = "exited" /\ MonitorStarted) =>
         stopCalls # "none" /\ orch.waitReturned
    /\ orch.waitReturned =>
         /\ stopCalls # "none"
         /\ monPc = "returned"
         /\ readerPc # "reading"
         /\ readerPc = "done" => cleanupRuns = 1
         /\ ~ActiveForwardRunning

C28_Witness ==
  /\ orch # << >>
  /\ orch.phase = "exited"
  /\ orch.signalled
  /\ orch.waitReturned
  /\ cleanupRuns = 1
  /\ \E p \in DOMAIN portForwards :
       /\ portForwards[p].active
       /\ portForwards[p].cmd # NilCmd
       /\ cmds[portForwards[p].cmd].st = "killed"

\* a text is empty or holds only spaces
Blank(s) == TrimSpace(s) = << >>

\* C31: Config set/get relation. After SetAzureSubscriptionForLogin(login,
\* s): on a non-nil config and a non-blank login, a non-blank s makes
\* AzureSubscriptionForLogin(login) return (trim(s), true) and a blank s
\* makes it return ("", false); a nil config or a blank login leaves the
\* config unchanged; the entries of the other logins are as before.
C31_SetGetRelation ==
  (cfg # << >> /\ cfg.called) =>
    LET got == AzureSubscriptionForLogin(cfg, cfg.login) IN
    /\ (~cfg.isNil /\ ~Blank(cfg.login) /\ ~Blank(cfg.sub)) =>
          got = [sub |-> TrimSpace(cfg.sub), ok |-> TRUE]
    /\ (~cfg.isNil /\ ~Blank(cfg.login) /\ Blank(cfg.sub)) =>
          got = [sub |-> << >>, ok |-> FALSE]
    /\ (cfg.isNil \/ Blank(cfg.login)) => cfg.m = cfg.before
    /\ \A k \in (DOMAIN cfg.m \cup DOMAIN cfg.before) \ {cfg.login} :
          /\ k \in DOMAIN cfg.m /\ k \in DOMAIN cfg.before
          /\ cfg.m[k] = cfg.before[k]

\* C32: every entry of the forward map is active if and only if its
\* process handle is non-nil: "bound" stores active=true with the handle of
\* startPortForwarding, "unbound" stores active=false with a nil handle
C32_ActiveIffHandle ==
  \A p \in DOMAIN portForwards :
    portForwards[p].active <=> portForwards[p].cmd # NilCmd

\* one port was bound and then unbound, another port is bound
C32_Witness ==
  \E p, q \in DOMAIN portForwards :
    /\ lastAct[p] = "unbound"
    /\ portForwards[p] = [active |-> FALSE, cmd |-> NilCmd]
    /\ \E h \in retired : cmds[h].port = p
    /\ lastAct[q] = "bound"
    /\ portForwards[q].active
    /\ portForwards[q].cmd # NilCmd

\* no forwarding command of this run is running
NoChildRunning == \A h \in Handles : cmds[h].st # "running"

\* runAndProcessOutput has started the reader and has returned
RunReturned == monPc = "returned" /\ readerPc # "idle"

\* C33: once runAndProcessOutput has returned, no forwarding command
\* started during the run keeps running: from then on every command that
\* still runs is killed through the cancelled forwarding context and none
\* is started, so that eventually none runs any more, whatever the state
\* of its map entry
C33_NoChildSurvives ==
  /\ [](RunReturned => FwdCtxDone)
  /\ [](RunReturned => <>[]NoChildRunning)

\* runAndProcessOutput has returned after the monitor command ended by
\* itself, Stop() was never called, and a command whose entry was unbound
\* before its process existed has been killed through the context
C33_Witness ==
  /\ RunReturned
  /\ ~monitorCtxDone
  /\ \E h \in Handles :
       /\ cmds[h].st = "cancelled"
       /\ h \in retired
       /\ killsSince[cmds[h].port] = 0

\* C34: Liveness of teardown. After PortMonitorController.Stop() was called
\* the monitor goroutine eventually returns, so that Wait() returns, in
\* whichever phase the goroutine was
C34_StopThenWaitReturns == (stopCalls # "none") ~> MonitorFinished

\* Stop() was called while the reader was reading and a forward was
\* running, and the goroutine has returned after the kill loop
C34_Witness ==
  /\ stopCalls = "one"
  /\ MonitorFinished
  /\ readerPc = "done"
  /\ cleanupRuns = 1
  /\ \E h \in Handles : cmds[h].st = "killed"

\* the key protocol:port of an event line
LineKey(l) == << l.protocol, l.port >>

\* the keys for which a line of ss names a decimal port above 1023
ListeningKeys(lines) ==
  { << l.protocol, l.local[Len(l.local)].n >> :
      l \in { m \in lines : /\ Len(m.local) >= 2
                            /\ m.local[Len(m.local)].kind = "num"
                            /\ m.local[Len(m.local) - 1].kind = "colon"
                            /\ m.local[Len(m.local)].n > 1023 } }

\* the keys the script tracks
TrackedKeys(bound) == { << k.protocol, k.port[1].n >> : k \in bound }

\* C35: the events the script has written alternate, for each key
\* protocol:port, between bound and unbound and start with bound; a scan
\* writes a bound event only for a key that is listening and was not
\* tracked, an unbound event only for a key that was tracked and is not
\* listening, and leaves as tracked set the listening keys above 1023
C35_EventsAlternate ==
  /\ [](sh # << >> =>
         \A i \in 1..Len(stream) :
           LET before == { j \in 1..(i - 1) :
                             LineKey(stream[j]) = LineKey(stream[i]) }
           IN  IF stream[i].action = "bound"
                 THEN \A j \in before :
                        (\A m \in before : m <= j)
                           => stream[j].action = "unbound"
                 ELSE /\ stream[i].action = "unbound"
                      /\ before # {}
                      /\ \A j \in before :
                           (\A m \in before : m <= j)
                              => stream[j].action = "bound")
  /\ [][ (sh # << >> /\ (stream' # stream \/ sh'.bound_ports # sh.bound_ports
                                           \/ sh'.scan # sh.scan)) =>
          LET nowKeys   == ListeningKeys(sh'.scan)
              tracked   == TrackedKeys(sh.bound_ports)
          IN  /\ \A i \in (Len(stream) + 1)..Len(stream') :
                   IF stream'[i].action = "bound"
                     THEN /\ LineKey(stream'[i]) \in nowKeys
                          /\ LineKey(stream'[i]) \notin tracked
                     ELSE /\ LineKey(stream'[i]) \in tracked
                          /\ LineKey(stream'[i]) \notin nowKeys
              /\ TrackedKeys(sh'.bound_ports) = nowKeys ]_vars

\* tcp:8080 was bound, unbound and bound again while udp:8080 was bound
\* once, and the last scan saw both and the line of port 22
C35_Witness ==
  /\ sh # << >>
  /\ Len(stream) = 4
  /\ \E i, j, k \in 1..4 :
       /\ i < j /\ j < k
       /\ LineKey(stream[i]) = << "tcp", 8080 >> /\ stream[i].action = "bound"
       /\ LineKey(stream[j]) = << "tcp", 8080 >> /\ stream[j].action = "unbound"
       /\ LineKey(stream[k]) = << "tcp", 8080 >> /\ stream[k].action = "bound"
  /\ TrackedKeys(sh.bound_ports) = { << "tcp", 8080 >>, << "udp", 8080 >> }
  /\ [protocol |-> "tcp", local |-> << Word, Colon, Num(22) >>] \in sh.scan

\* every event the script has written was handled by the reader
AllHandled ==
  /\ readerPc = "reading"
  /\ current = 0
  /\ scanned = Len(stream)

BadFrame(f) == f.json = "invalid" \/ f.type # "getAccessToken"

\* C37: the handler reads a frame that is not valid JSON or whose type is
\* not getAccessToken: it writes no frame, makes no token request and stays
\* on the connection at the top of its loop; and a getAccessToken request
\* that a connected client sends right after such a frame is answered with
\* exactly one frame, as any other
C37_BadFrameIgnored ==
  /\ [][ (Len(reqLog') = Len(reqLog) + 1
            /\ BadFrame(reqLog'[Len(reqLog')].frame)) =>
           /\ outbox' = outbox
           /\ tokenCalls' = tokenCalls
           /\ connPc' = "top"
           /\ clientOpen' = clientOpen ]_vars
  /\ [](\A k \in 2..Len(reqLog) :
          (BadFrame(reqLog[k - 1].frame) /\ IsTokenRequest(k)
             /\ reqLog[k].peerOpen) =>
            /\ reqLog[k].last = reqLog[k].first + 1
            /\ reqLog[k].first = reqLog[k - 1].last
            /\ outbox[reqLog[k].last].doc.type =
                  IF reqLog[k].outcome = "ok" THEN "accessToken" ELSE "error")

\* a frame that is not JSON and a frame of another type were read without
\* an answer, and the getAccessToken request after them got its token
C37_Witness ==
  /\ Len(reqLog) = 3
  /\ reqLog[1].frame.json = "invalid"
  /\ reqLog[2].frame.json = "valid" /\ reqLog[2].frame.type = "other"
  /\ IsTokenRequest(3)
  /\ reqLog[3].outcome = "ok"
  /\ Len(outbox) = 1
  /\ outbox[1].doc.type = "accessToken"
  /\ Len(tokenCalls) = 1
  /\ connPc = "top"

\* C38: once Stop() of the raw-TCP browser service has returned, every
\* goroutine the service started ends: the accept goroutine returns, being
\* blocked for ever neither in its send on connChan nor in its send on
\* errChan, and the connection handlers return
C38_NoGoroutineLeft ==
  (tcp # << >> /\ tcp.stop = "returned") ~>
     (tcp.inner = "returned" /\ tcp.reading = 0)

\* max(0, len(choices)-1)
LastIndex == IF sel.choices = 0 THEN 0 ELSE sel.choices - 1

\* C39: in the selection model the cursor stays between 0 and
\* max(0, len(choices)-1) after every key message; done becomes true only
\* in a step on the enter or the space key, and selected is then the
\* cursor; showSelection returns an index only with done true, the index
\* being selected, and returns -1 and an error when it returns with done
\* false
C39_SelectionModel ==
  /\ [](sel # << >> => (0 <= sel.cursor /\ sel.cursor <= LastIndex))
  /\ [][ (sel # << >> /\ sel'.done /\ ~sel.done) =>
           /\ sel'.key \in {"enter", " "}
           /\ sel'.selected = sel.cursor
           /\ sel'.selected = sel'.cursor ]_vars
  /\ []((sel # << >> /\ sel.result = "index") =>
          (sel.done /\ sel.value = sel.selected))
  /\ []((sel # << >> /\ sel.phase = "returned" /\ ~sel.done) =>
          (sel.result = "error" /\ sel.value = -1))

\* the cursor was moved down to the last of three choices and past a try
\* to go further, the choice was made with the space key, and
\* showSelection has returned index 2
C39_Witness ==
  /\ sel # << >>
  /\ sel.choices = 3
  /\ sel.cursor = 2
  /\ sel.key = " "
  /\ sel.done
  /\ sel.result = "index"
  /\ sel.value = 2

====
